---- MODULE Spec2Model ----
(***************************************************************************)
(* Model of the CV extraction core of app/models.py (CVInfoExtractor):     *)
(* cache key derivation, the file cache, the response normalizer and the   *)
(* fallback chain of extract_from_cv.                                      *)
(*                                                                         *)
(* Texts (CV text, raw model responses, cache file contents) are sequences *)
(* of tokens.  A token is a TLA+ string: the punctuation of JSON, the two  *)
(* fence markers, a number, null, a prose word, or - any other string - a  *)
(* JSON string literal with that content.                                  *)
(***************************************************************************)
EXTENDS Integers, Sequences, FiniteSets, TLC

(***************************************************************************)
(* Bounds of the model.                                                    *)
(***************************************************************************)
MaxCalls == 2        \* invocations of extract_from_cv explored in one run
MaxTextLen == 5      \* longest CV text given to get_cache_key
DigestBits == 5      \* width of the modelled digest (hashlib.md5 has 128)
MaxFrags == 3        \* fragments concatenated into one raw response
MaxSkills == 2       \* longest skills list of the scored records
MaxItems == 2        \* most CV files of an evaluated data set

(***************************************************************************)
(* JSON values, as json.loads builds them.  The kind field k sorts before  *)
(* the payload field v.                                                    *)
(***************************************************************************)
JStr(s) == [k |-> "str", v |-> s]
JNum(t) == [k |-> "num", v |-> t]
JNull == [k |-> "null", v |-> "null"]
JList(s) == [k |-> "list", v |-> s]
JDict(pairs) == [k |-> "dict", v |-> pairs]
JText(toks) == [k |-> "text", v |-> toks]

Punct == {"{", "}", "[", "]", ",", ":"}
\* the markers of a fenced block: three backquotes followed by json, and
\* three backquotes (written with quotes here)
FenceJson == "'''json"
Fence == "'''"
NumToks == {"42"}
ProseToks == {"Here", "is"}
NotStringLit == Punct \cup {FenceJson, Fence, "null", "..."} \cup NumToks \cup ProseToks
IsStrLit(t) == t \notin NotStringLit

\* dict.__contains__ / dict.__getitem__ / dict.__setitem__ on an ordered
\* sequence of <<key, value>> pairs with unique keys
HasKey(d, key) == \E i \in DOMAIN d.v : d.v[i][1] = key
GetKey(d, key) == d.v[CHOOSE i \in DOMAIN d.v : d.v[i][1] = key][2]
DictSet(pairs, key, val) ==
    IF \E i \in DOMAIN pairs : pairs[i][1] = key
    THEN [i \in DOMAIN pairs |-> IF pairs[i][1] = key THEN <<key, val>> ELSE pairs[i]]
    ELSE Append(pairs, <<key, val>>)

RECURSIVE DictUpdate(_, _, _)
DictUpdate(pairs, other, i) ==
    IF i > Len(other) THEN pairs
    ELSE DictUpdate(DictSet(pairs, other[i][1], other[i][2]), other, i + 1)

\* bool(x) of a JSON value
Truthy(val) ==
    CASE val.k = "null" -> FALSE
      [] val.k = "num" -> val.v # "0"
      [] val.k = "str" -> val.v # ""
      [] OTHER -> val.v # <<>>

(***************************************************************************)
(* json.loads: a recursive-descent parser over tokens.                     *)
(***************************************************************************)
ParseFail == [ok |-> FALSE, val |-> JNull, nxt |-> 0]
ParseOk(val, nxt) == [ok |-> TRUE, val |-> val, nxt |-> nxt]

RECURSIVE ParseValue(_, _)
RECURSIVE ParseMembers(_, _, _)
RECURSIVE ParseElems(_, _, _)

ParseValue(toks, i) ==
    IF i > Len(toks) THEN ParseFail
    ELSE LET t == toks[i] IN
         CASE t = "{" ->
                IF i + 1 <= Len(toks) /\ toks[i + 1] = "}"
                THEN ParseOk(JDict(<<>>), i + 2)
                ELSE ParseMembers(toks, i + 1, <<>>)
           [] t = "[" ->
                IF i + 1 <= Len(toks) /\ toks[i + 1] = "]"
                THEN ParseOk(JList(<<>>), i + 2)
                ELSE ParseElems(toks, i + 1, <<>>)
           [] t = "null" -> ParseOk(JNull, i + 1)
           [] t \in NumToks -> ParseOk(JNum(t), i + 1)
           [] IsStrLit(t) -> ParseOk(JStr(t), i + 1)
           [] OTHER -> ParseFail

ParseMembers(toks, i, acc) ==
    IF i + 2 > Len(toks) \/ ~IsStrLit(toks[i]) \/ toks[i + 1] # ":" THEN ParseFail
    ELSE LET r == ParseValue(toks, i + 2) IN
         IF ~r.ok \/ r.nxt > Len(toks) THEN ParseFail
         ELSE LET acc2 == DictSet(acc, toks[i], r.val) IN
              CASE toks[r.nxt] = "," -> ParseMembers(toks, r.nxt + 1, acc2)
                [] toks[r.nxt] = "}" -> ParseOk(JDict(acc2), r.nxt + 1)
                [] OTHER -> ParseFail

ParseElems(toks, i, acc) ==
    LET r == ParseValue(toks, i) IN
    IF ~r.ok \/ r.nxt > Len(toks) THEN ParseFail
    ELSE CASE toks[r.nxt] = "," -> ParseElems(toks, r.nxt + 1, Append(acc, r.val))
           [] toks[r.nxt] = "]" -> ParseOk(JList(Append(acc, r.val)), r.nxt + 1)
           [] OTHER -> ParseFail

\* json.loads(s): the whole text must be one JSON value
Loads(toks) ==
    LET r == ParseValue(toks, 1) IN
    IF r.ok /\ r.nxt = Len(toks) + 1 THEN r ELSE ParseFail

(***************************************************************************)
(* json.dump: the token text of a JSON value.                              *)
(***************************************************************************)
RECURSIVE Dump(_)
RECURSIVE DumpElems(_, _)
RECURSIVE DumpMembers(_, _)

DumpElems(s, i) ==
    IF i > Len(s) THEN <<>>
    ELSE (IF i > 1 THEN <<",">> ELSE <<>>) \o Dump(s[i]) \o DumpElems(s, i + 1)

DumpMembers(s, i) ==
    IF i > Len(s) THEN <<>>
    ELSE (IF i > 1 THEN <<",">> ELSE <<>>) \o <<s[i][1], ":">> \o Dump(s[i][2])
         \o DumpMembers(s, i + 1)

Dump(val) ==
    CASE val.k = "list" -> <<"[">> \o DumpElems(val.v, 1) \o <<"]">>
      [] val.k = "dict" -> <<"{">> \o DumpMembers(val.v, 1) \o <<"}">>
      [] OTHER -> <<val.v>>

(***************************************************************************)
(* CVInfoExtractor._normalize_extraction_result                            *)
(***************************************************************************)
Lower_identity(key) == key
\* str.lower() on the keys the model outputs use
Lower(key) ==
    CASE key \in {"Name", "NAME"} -> "name"
      [] key \in {"FullName", "FULLNAME"} -> "fullname"
      [] key \in {"Full_Name", "FULL_NAME"} -> "full_name"
      [] key \in {"Email", "EMAIL"} -> "email"
      [] key \in {"Email_Address", "EMAIL_ADDRESS"} -> "email_address"
      [] key = "Skills" -> "skills"
      [] key = "Education" -> "education"
      [] key = "Personal_Info" -> "personal_info"
      [] OTHER -> key

EmptyNormalized ==
    [personal_info |-> JDict(<<>>), education |-> JList(<<>>),
     experience |-> JList(<<>>), skills |-> JList(<<>>), languages |-> JList(<<>>)]

ListOrEmpty_unchecked(value) == value
\* value if isinstance(value, list) else []
ListOrEmpty(value) == IF value.k = "list" THEN value ELSE JList(<<>>)

\* one iteration of the loop over result.items()
NormalizeItem(n, key, value) ==
    LET key_lower == Lower(key) IN
    CASE key_lower \in {"name", "fullname", "full_name"} ->
           [n EXCEPT !.personal_info = JDict(DictSet(@.v, "name", value))]
      [] key_lower \in {"email", "email_address"} ->
           [n EXCEPT !.personal_info = JDict(DictSet(@.v, "email", value))]
      [] key_lower \in {"phone", "phone_number"} ->
           [n EXCEPT !.personal_info = JDict(DictSet(@.v, "phone", value))]
      [] key_lower \in {"address", "location"} ->
           [n EXCEPT !.personal_info = JDict(DictSet(@.v, "address", value))]
      [] key_lower = "personal_info" /\ value.k = "dict" ->
           [n EXCEPT !.personal_info = JDict(DictUpdate(@.v, value.v, 1))]
      [] key_lower \in {"education", "educations"} ->
           [n EXCEPT !.education = ListOrEmpty(value)]
      [] key_lower \in {"experience", "work_experience", "employment"} ->
           [n EXCEPT !.experience = ListOrEmpty(value)]
      [] key_lower = "skills" ->
           [n EXCEPT !.skills = ListOrEmpty(value)]
      [] key_lower \in {"languages", "language"} ->
           [n EXCEPT !.languages = ListOrEmpty(value)]
      [] OTHER -> n

RECURSIVE NormalizeItems(_, _, _)
NormalizeItems(n, items, i) ==
    IF i > Len(items) THEN n
    ELSE NormalizeItems(NormalizeItem(n, items[i][1], items[i][2]), items, i + 1)

_normalize_extraction_result(result) ==
    LET n == NormalizeItems(EmptyNormalized, result.v, 1) IN
    JDict(<< <<"personal_info", n.personal_info>>,
             <<"education", n.education>>,
             <<"experience", n.experience>>,
             <<"skills", n.skills>>,
             <<"languages", n.languages>> >>)

(***************************************************************************)
(* CVInfoExtractor.extract_json_from_response                              *)
(***************************************************************************)
RawSampleLen == 100

\* str.find / str.rfind, 0 standing for -1
FindFirst(toks, S) ==
    IF \E i \in DOMAIN toks : toks[i] \in S
    THEN CHOOSE i \in DOMAIN toks :
            toks[i] \in S /\ \A j \in 1..(i - 1) : toks[j] \notin S
    ELSE 0
FindLast(toks, S) ==
    IF \E i \in DOMAIN toks : toks[i] \in S
    THEN CHOOSE i \in DOMAIN toks :
            toks[i] \in S /\ \A j \in (i + 1)..Len(toks) : toks[j] \notin S
    ELSE 0

ErrorRecord(msg) == JDict(<< <<"error", JStr(msg)>> >>)
\* response[:100] + "..." if len(response) > 100 else response
RawSample(response) ==
    IF Len(response) > RawSampleLen
    THEN SubSeq(response, 1, RawSampleLen) \o <<"...">>
    ELSE response
ParseErrorRecord(response) ==
    JDict(<< <<"error", JStr("JSON parsing error")>>,
             <<"raw_response", JText(RawSample(response))>> >>)

\* the value of an escaping exception
Raised(what) == [k |-> "raise", v |-> what]

NormalizeParsed_unguarded(r, response) ==
    IF ~r.ok THEN Raised("JSONDecodeError")
    ELSE IF r.val.k = "dict" THEN _normalize_extraction_result(r.val)
    ELSE ErrorRecord("Invalid JSON structure")
\* the rest of the try block once the span is chosen: json.loads, the
\* JSONDecodeError handler, and the normalization of a parsed object
NormalizeParsed(r, response) ==
    IF ~r.ok THEN ParseErrorRecord(response)
    ELSE IF r.val.k = "dict" THEN _normalize_extraction_result(r.val)
    ELSE ErrorRecord("Invalid JSON structure")

extract_json_from_response(response) ==
    IF response = <<>> THEN ErrorRecord("Empty response")
    ELSE
      LET first_brace == FindFirst(response, {"{"})
          last_brace == FindLast(response, {"}"})
      IN
      IF first_brace = 0 \/ last_brace = 0 \/ first_brace > last_brace
      THEN
        \* rfind of the three backquotes also finds those that open a fence
        LET json_start == FindFirst(response, {FenceJson})
            json_end == FindLast(response, {Fence, FenceJson})
        IN
        IF json_start # 0 /\ json_end # 0 /\ json_start < json_end
        THEN NormalizeParsed(Loads(SubSeq(response, json_start + 1, json_end - 1)),
                             response)
        ELSE ErrorRecord("Could not find valid JSON in response")
      ELSE NormalizeParsed(Loads(SubSeq(response, first_brace, last_brace)), response)

(***************************************************************************)
(* Cache keys and the file cache.                                          *)
(***************************************************************************)
\* the byte values of the tokens a key is computed from
TokCode(t) ==
    CASE t = "a" -> 1
      [] t = "b" -> 2
      [] t = ":" -> 3
      [] t = "llama3:latest" -> 4
      [] t = "phi:latest" -> 5
      [] t = "mistral:latest" -> 6
      [] t = "openrouter" -> 7
      [] t = "{" -> 8
      [] t = "}" -> 9
      [] OTHER -> 10

\* hashlib.md5(...).hexdigest(): a digest of fixed width, here DigestBits
\* bits instead of 128
RECURSIVE md5_update(_, _, _)
md5_update(h, content, i) ==
    IF i > Len(content) THEN h
    ELSE md5_update((h * 5 + TokCode(content[i])) % (2 ^ DigestBits), content, i + 1)
md5(content) == md5_update(7 % (2 ^ DigestBits), content, 1)

KeyContent_no_text(text, model) == <<model, ":">>
\* content = f"{model}:{cv_text}"
KeyContent(text, model) == <<model, ":">> \o text
get_cache_key(text, model) == md5(KeyContent(text, model))

None == JNull

get_from_cache_unguarded(files, key, readable) ==
    IF key \notin DOMAIN files THEN None
    ELSE IF ~readable THEN Raised("OSError")
    ELSE LET r == Loads(files[key]) IN IF r.ok THEN r.val ELSE Raised("JSONDecodeError")
\* the cache directory is a function from keys (file names) to file contents;
\* readable is FALSE when opening the existing file raises
get_from_cache(files, key, readable) ==
    IF key \notin DOMAIN files THEN None
    ELSE IF ~readable THEN None
    ELSE LET r == Loads(files[key]) IN IF r.ok THEN r.val ELSE None

\* written is the number of tokens that reach the file: -1 when open() raises,
\* fewer than the whole text when json.dump raises part-way
save_to_cache(files, key, rec, written) ==
    IF written < 0 THEN files
    ELSE (key :> SubSeq(Dump(rec), 1, written)) @@ files

\* the write fails at open(), fails in json.dump with the file truncated,
\* or completes
WriteOutcomes(rec) ==
    {-1, 0, Len(Dump(rec))}

(***************************************************************************)
(* evaluation/metrics.py: EvaluationMetrics.  The scores are floats in the *)
(* code; here they are exact fractions in lowest terms.                    *)
(***************************************************************************)
RECURSIVE GCD(_, _)
GCD(a, b) == IF b = 0 THEN a ELSE GCD(b, a % b)
Frac(n, d) == LET g == GCD(n, d) IN [n |-> n \div g, d |-> d \div g]
Zero == Frac(0, 1)
One == Frac(1, 1)
FAdd(a, b) == Frac(a.n * b.d + b.n * a.d, a.d * b.d)
FMul(a, b) == Frac(a.n * b.n, a.d * b.d)
FDiv(a, b) == Frac(a.n * b.d, a.d * b.n)
FLe(a, b) == a.n * b.d <= b.n * a.d
FMin(a, b) == IF FLe(a, b) THEN a ELSE b

field_weights_unnormalized ==
    << <<"personal_info", Frac(30, 100)>>, <<"education", Frac(25, 100)>>,
       <<"experience", Frac(25, 100)>>, <<"skills", Frac(15, 100)>>,
       <<"languages", Frac(50, 100)>> >>
\* self.field_weights, in insertion order
field_weights ==
    << <<"personal_info", Frac(30, 100)>>, <<"education", Frac(25, 100)>>,
       <<"experience", Frac(25, 100)>>, <<"skills", Frac(15, 100)>>,
       <<"languages", Frac(5, 100)>> >>
WeightedFields == {field_weights[i][1] : i \in DOMAIN field_weights}

\* dict.get(key, default)
Get(d, key, default) == IF HasKey(d, key) THEN GetKey(d, key) ELSE default

\* str(obj)
PyStr(obj) ==
    CASE obj.k \in {"str", "num"} -> obj.v
      [] obj.k = "null" -> "None"
      [] OTHER -> ToString(obj)

\* re.sub(r'\s+', ' ', text.lower().strip()) on the strings the records use,
\* "" for an empty text
normalize_text(text) ==
    CASE text = "Python" -> "python"
      [] text = " python " -> "python"
      [] text = "SQL" -> "sql"
      [] text = "Java" -> "java"
      [] text = "Ann" -> "ann"
      [] text = "Ann  Lee" -> "ann lee"
      [] text = "BSc" -> "bsc"
      [] text = "Acme" -> "acme"
      [] text = "English" -> "english"
      [] text = "Extraction Failed" -> "extraction failed"
      [] text = "All extraction methods failed" -> "all extraction methods failed"
      [] text = " " -> ""
      [] OTHER -> text

RECURSIVE extract_recursive_unindexed(_, _)
extract_recursive_unindexed(obj, prefix) ==
    CASE obj.k = "dict" ->
           UNION {extract_recursive_unindexed(obj.v[i][2],
                                    IF prefix = "" THEN obj.v[i][1]
                                    ELSE prefix \o "." \o obj.v[i][1]) :
                    i \in DOMAIN obj.v}
      [] obj.k = "list" ->
           UNION {extract_recursive_unindexed(obj.v[i], prefix \o "[]") :
                    i \in DOMAIN obj.v}
      [] obj.k = "null" -> {}
      [] OTHER ->
           LET normalized == normalize_text(PyStr(obj)) IN
           IF normalized = "" THEN {} ELSE {prefix \o ":" \o normalized}
\* extract_recursive(obj, prefix): the tokens "path:normalized value"
RECURSIVE extract_recursive(_, _)
extract_recursive(obj, prefix) ==
    CASE obj.k = "dict" ->
           UNION {extract_recursive(obj.v[i][2],
                                    IF prefix = "" THEN obj.v[i][1]
                                    ELSE prefix \o "." \o obj.v[i][1]) :
                    i \in DOMAIN obj.v}
      [] obj.k = "list" ->
           UNION {extract_recursive(obj.v[i], prefix \o "[" \o ToString(i - 1) \o "]") :
                    i \in DOMAIN obj.v}
      [] obj.k = "null" -> {}
      [] OTHER ->
           LET normalized == normalize_text(PyStr(obj)) IN
           IF normalized = "" THEN {} ELSE {prefix \o ":" \o normalized}

extract_text_fields(data) == extract_recursive(data, "")

calculate_field_accuracy_symmetric(extracted, ground_truth, field) ==
    IF ~HasKey(ground_truth, field)
    THEN (IF ~HasKey(extracted, field) THEN One ELSE Zero)
    ELSE IF ~HasKey(extracted, field) THEN Zero
    ELSE LET extracted_fields ==
                 extract_text_fields(JDict(<< <<field, GetKey(extracted, field)>> >>))
             gt_fields ==
                 extract_text_fields(JDict(<< <<field, GetKey(ground_truth, field)>> >>))
         IN IF gt_fields = {} THEN (IF extracted_fields = {} THEN One ELSE Zero)
            ELSE Frac(Cardinality(extracted_fields \cap gt_fields),
                      Cardinality(extracted_fields \cup gt_fields))
calculate_field_accuracy(extracted, ground_truth, field) ==
    IF ~HasKey(ground_truth, field)
    THEN (IF ~HasKey(extracted, field) THEN One ELSE Zero)
    ELSE IF ~HasKey(extracted, field) THEN Zero
    ELSE LET extracted_fields ==
                 extract_text_fields(JDict(<< <<field, GetKey(extracted, field)>> >>))
             gt_fields ==
                 extract_text_fields(JDict(<< <<field, GetKey(ground_truth, field)>> >>))
         IN IF gt_fields = {} THEN (IF extracted_fields = {} THEN One ELSE Zero)
            ELSE Frac(Cardinality(extracted_fields \cap gt_fields),
                      Cardinality(gt_fields))

\* the loop of calculate_accuracy from the i-th weight on
RECURSIVE AccumulateAccuracy(_, _, _, _, _)
AccumulateAccuracy(weights, extracted, ground_truth, i, total_accuracy) ==
    IF i > Len(weights) THEN total_accuracy
    ELSE AccumulateAccuracy(weights, extracted, ground_truth, i + 1,
            FAdd(total_accuracy,
                 FMul(calculate_field_accuracy(extracted, ground_truth, weights[i][1]),
                      weights[i][2])))
calculate_accuracy(extracted, ground_truth) ==
    AccumulateAccuracy(field_weights, extracted, ground_truth, 1, Zero)

calculate_precision_vacuous(extracted, ground_truth) ==
    LET extracted_fields == extract_text_fields(extracted)
        gt_fields == extract_text_fields(ground_truth)
    IN IF extracted_fields = {} THEN One
       ELSE Frac(Cardinality(extracted_fields \cap gt_fields),
                 Cardinality(extracted_fields))
calculate_precision(extracted, ground_truth) ==
    LET extracted_fields == extract_text_fields(extracted)
        gt_fields == extract_text_fields(ground_truth)
    IN IF extracted_fields = {} THEN (IF gt_fields = {} THEN One ELSE Zero)
       ELSE Frac(Cardinality(extracted_fields \cap gt_fields),
                 Cardinality(extracted_fields))

calculate_recall_symmetric(extracted, ground_truth) ==
    LET extracted_fields == extract_text_fields(extracted)
        gt_fields == extract_text_fields(ground_truth)
    IN IF gt_fields = {} THEN (IF extracted_fields = {} THEN One ELSE Zero)
       ELSE Frac(Cardinality(extracted_fields \cap gt_fields),
                 Cardinality(gt_fields))
calculate_recall(extracted, ground_truth) ==
    LET extracted_fields == extract_text_fields(extracted)
        gt_fields == extract_text_fields(ground_truth)
    IN IF gt_fields = {} THEN One
       ELSE Frac(Cardinality(extracted_fields \cap gt_fields),
                 Cardinality(gt_fields))

calculate_f1_score_unscaled(precision, recall) ==
    IF FAdd(precision, recall) = Zero THEN Zero
    ELSE FDiv(FMul(precision, recall), FAdd(precision, recall))
calculate_f1_score(precision, recall) ==
    IF FAdd(precision, recall) = Zero THEN Zero
    ELSE FDiv(FMul(Frac(2, 1), FMul(precision, recall)), FAdd(precision, recall))

\* one entry of calculate_field_completeness
FieldCompleteness(extracted, ground_truth, field) ==
    IF ~HasKey(ground_truth, field) THEN One
    ELSE LET gt_data == GetKey(ground_truth, field)
             extracted_data == Get(extracted, field, JDict(<<>>))
         IN CASE gt_data.k = "dict" ->
                   LET gt_keys == {gt_data.v[i][1] : i \in DOMAIN gt_data.v}
                       extracted_keys ==
                           IF extracted_data.k = "dict"
                           THEN {extracted_data.v[i][1] : i \in DOMAIN extracted_data.v}
                           ELSE {}
                   IN IF gt_keys = {} THEN One
                      ELSE Frac(Cardinality(extracted_keys \cap gt_keys),
                                Cardinality(gt_keys))
              [] gt_data.k = "list" ->
                   LET gt_count == Len(gt_data.v)
                       extracted_count ==
                           IF extracted_data.k = "list" THEN Len(extracted_data.v) ELSE 0
                   IN IF gt_count > 0 THEN FMin(Frac(extracted_count, gt_count), One)
                      ELSE One
              [] OTHER -> IF Truthy(extracted_data) THEN One ELSE Zero

calculate_detailed_metrics(extracted, ground_truth) ==
    [accuracy |-> calculate_accuracy(extracted, ground_truth),
     precision |-> calculate_precision(extracted, ground_truth),
     recall |-> calculate_recall(extracted, ground_truth),
     f1_score |-> calculate_f1_score(calculate_precision(extracted, ground_truth),
                                     calculate_recall(extracted, ground_truth)),
     field_accuracy |->
        [field \in WeightedFields |->
            calculate_field_accuracy(extracted, ground_truth, field)],
     field_completeness |->
        [field \in WeightedFields |->
            FieldCompleteness(extracted, ground_truth, field)]]

(***************************************************************************)
(* scripts/run_evaluate.py: the scoring of OptimizedCVEvaluator.           *)
(***************************************************************************)
\* str.strip().lower() on the strings the records use
StripLower(text) ==
    CASE text = "Ann  Lee" -> "ann  lee"
      [] text = "None" -> "none"
      [] OTHER -> normalize_text(text)

_convert_app_format_to_eval_format(app_result) ==
    LET personal_info == Get(app_result, "personal_info", JDict(<<>>)) IN
    JDict(<< <<"Name", Get(personal_info, "name", JStr(""))>>,
             <<"Email", Get(personal_info, "email", JStr(""))>>,
             <<"Phone", Get(personal_info, "phone", JStr(""))>>,
             <<"Skills", Get(app_result, "skills", JList(<<>>))>>,
             <<"Education", Get(app_result, "education", JList(<<>>))>>,
             <<"Experience", Get(app_result, "experience", JList(<<>>))>> >>)

\* a score, or the exception that escapes
Scored(x) == [raised |-> FALSE, value |-> x]
ScoreRaised == [raised |-> TRUE, value |-> Zero]

\* the branch of calculate_field_accuracy for Skills, both lists non-empty
SkillsJaccard(extracted, ground_truth) ==
    IF \E i \in DOMAIN ground_truth.v : ground_truth.v[i].k # "str"
    THEN ScoreRaised
    ELSE IF \E i \in DOMAIN extracted.v : extracted.v[i].k # "str"
    THEN ScoreRaised
    ELSE LET gt_skills == {StripLower(ground_truth.v[i].v) : i \in DOMAIN ground_truth.v}
             ex_skills == {StripLower(extracted.v[i].v) : i \in DOMAIN extracted.v}
         IN Scored(Frac(Cardinality(gt_skills \cap ex_skills),
                        Cardinality(gt_skills \cup ex_skills)))

\* item_score / item_fields of one zipped pair of mappings
ItemScore(gt_item, ex_item) ==
    LET matching == {i \in DOMAIN gt_item.v :
                        /\ HasKey(ex_item, gt_item.v[i][1])
                        /\ StripLower(PyStr(gt_item.v[i][2]))
                             = StripLower(PyStr(GetKey(ex_item, gt_item.v[i][1])))}
        item_fields == Len(gt_item.v)
    IN IF item_fields > 0 THEN Frac(Cardinality(matching), item_fields) ELSE Zero

RECURSIVE TotalItemScore(_, _, _)
TotalItemScore(ground_truth, extracted, i) ==
    IF i > Len(ground_truth.v) THEN Zero
    ELSE FAdd(ItemScore(ground_truth.v[i], extracted.v[i]),
              TotalItemScore(ground_truth, extracted, i + 1))

\* OptimizedCVEvaluator.calculate_field_accuracy
Optimized_calculate_field_accuracy(extracted, ground_truth, field_name) ==
    CASE field_name \in {"Name", "Email", "Phone"} ->
           Scored(IF StripLower(PyStr(extracted)) = StripLower(PyStr(ground_truth))
                  THEN One ELSE Zero)
      [] field_name = "Skills" ->
           IF ~Truthy(ground_truth) \/ ~Truthy(extracted)
           THEN Scored(IF ~Truthy(ground_truth) /\ ~Truthy(extracted) THEN One ELSE Zero)
           ELSE SkillsJaccard(extracted, ground_truth)
      [] field_name \in {"Education", "Experience"} ->
           IF ~Truthy(ground_truth) \/ ~Truthy(extracted)
           THEN Scored(IF ~Truthy(ground_truth) /\ ~Truthy(extracted) THEN One ELSE Zero)
           ELSE IF Len(ground_truth.v) # Len(extracted.v) THEN Scored(Frac(1, 2))
           ELSE IF \E i \in DOMAIN ground_truth.v :
                      ground_truth.v[i].k # "dict" \/ extracted.v[i].k # "dict"
           THEN ScoreRaised
           ELSE Scored(FDiv(TotalItemScore(ground_truth, extracted, 1),
                            Frac(Len(ground_truth.v), 1)))
      [] OTHER -> Scored(Zero)

\* field_weights of calculate_overall_accuracy, in insertion order
flat_field_weights ==
    << <<"Name", Frac(15, 100)>>, <<"Email", Frac(10, 100)>>,
       <<"Phone", Frac(10, 100)>>, <<"Skills", Frac(25, 100)>>,
       <<"Education", Frac(20, 100)>>, <<"Experience", Frac(20, 100)>> >>
FlatFields == {flat_field_weights[i][1] : i \in DOMAIN flat_field_weights}

\* accuracy of one weighted field that the ground truth has
FlatFieldAccuracy(extracted, ground_truth, field) ==
    Optimized_calculate_field_accuracy(Get(extracted, field, None),
                                       Get(ground_truth, field, None), field)

\* the loop of calculate_overall_accuracy from the i-th weight on; acc holds
\* total_weighted_score and total_weight
RECURSIVE AccumulateOverall(_, _, _, _)
AccumulateOverall(extracted, ground_truth, i, acc) ==
    IF i > Len(flat_field_weights) THEN acc
    ELSE LET field == flat_field_weights[i][1]
             weight == flat_field_weights[i][2]
         IN IF ~HasKey(ground_truth, field)
            THEN AccumulateOverall(extracted, ground_truth, i + 1, acc)
            ELSE LET accuracy == FlatFieldAccuracy(extracted, ground_truth, field) IN
                 IF accuracy.raised THEN [acc EXCEPT !.raised = TRUE]
                 ELSE AccumulateOverall(extracted, ground_truth, i + 1,
                        [acc EXCEPT
                           !.total_weighted_score = FAdd(@, FMul(accuracy.value, weight)),
                           !.total_weight = FAdd(@, weight)])

calculate_overall_accuracy(extracted, ground_truth) ==
    LET acc == AccumulateOverall(extracted, ground_truth, 1,
                  [raised |-> FALSE, total_weighted_score |-> Zero, total_weight |-> Zero])
    IN IF acc.raised THEN ScoreRaised
       ELSE IF acc.total_weight = Zero THEN Scored(Zero)
       ELSE Scored(FDiv(acc.total_weighted_score, acc.total_weight))

\* _create_error_result, without its bookkeeping of model and time
_create_error_result(error) ==
    JDict(<< <<"Name", JStr("Extraction Error")>>, <<"Email", JStr("")>>,
             <<"Phone", JStr("")>>, <<"Skills", JList(<<>>)>>,
             <<"Education", JList(<<>>)>>, <<"Experience", JList(<<>>)>>,
             <<"_error", error>> >>)

\* extract_with_model once the pipeline has returned result
StandardizedResult(result) ==
    IF HasKey(result, "error") THEN _create_error_result(GetKey(result, "error"))
    ELSE _convert_app_format_to_eval_format(result)

\* the accuracy evaluate_single_cv records for one model
RecordedAccuracy(result, ground_truth) ==
    LET extracted == StandardizedResult(result) IN
    IF ~HasKey(extracted, "_error")
    THEN calculate_overall_accuracy(extracted, ground_truth)
    ELSE Scored(Zero)

(***************************************************************************)
(* State.                                                                  *)
(***************************************************************************)
VARIABLES
    cache,      \* the files of cache_dir: key -> file content
    api_key,    \* whether config.OPENROUTER_API_KEY is set
    pc,         \* position of the running extract_from_cv
    cv_text,    \* its argument
    idx,        \* position of model_name in self.models
    ridx,       \* position of model in self.openrouter_models
    result,     \* the returned record
    netlog,     \* the HTTP requests sent by the running invocation
    last,       \* what the latest backend called by the running invocation gave
    first_clean,\* the first error-free record a backend gave to this invocation
    hit,        \* the backend whose cache entry was returned, or "none"
    io,         \* the outcome of the latest cache read and cache write
    calls,      \* invocations started
    prev,       \* while the second invocation runs, the first one: its text,
                \* its record, and whether it sent exactly one generation request
    response,   \* argument of a stand-alone extract_json_from_response
    extracted,  \* its value
    keyq,       \* arguments and values of two get_cache_key calls
    aliasq,     \* two model outputs, one with a top-level alias and one with
                \* the nested form, and their normalized records
    metricq,    \* an extracted record, a ground truth, and their scores
    batch,      \* a batch evaluation: the data set, the position of the
                \* loop, the results so far and the summary
    doc,        \* one document on its way from text acquisition to
                \* extraction: the call site, the threads, the text
    race,       \* two unordered writers of one cache key and its readers
    chainq      \* two invocations of extract_from_cv on one cache and one
                \* environment: their arguments and what each did

mainVars == <<cache, api_key, pc, cv_text, idx, ridx, result, netlog, last,
              first_clean, hit, io, calls, prev>>
normVars == <<response, extracted>>
keyVars == <<keyq>>
evalVars == <<aliasq, metricq, batch, doc, race, chainq>>
vars == <<mainVars, normVars, keyVars, evalVars>>

models == <<"llama3:latest", "phi:latest", "mistral:latest">>
openrouter_models == <<"mistralai/mistral-7b-instruct:free",
                       "shisa-ai/shisa-v2-llama3.3-70b:free",
                       "cognitivecomputations/dolphin3.0-mistral-24b:free">>

NoResult == [k |-> "none", v |-> "none"]
IsRaise(x) == x.k = "raise"

\* the record returned when all extraction methods failed
TerminalRecord ==
    JDict(<< <<"error", JStr("All extraction methods failed")>>,
             <<"personal_info",
               JDict(<< <<"name", JStr("Extraction Failed")>>,
                        <<"email", JStr("")>>,
                        <<"phone", JStr("")>>,
                        <<"address", JStr("")>> >>)>>,
             <<"education", JList(<<>>)>>,
             <<"experience", JList(<<>>)>>,
             <<"skills", JList(<<>>)>>,
             <<"languages", JList(<<>>)>> >>)

(***************************************************************************)
(* The inputs and the environment.                                         *)
(***************************************************************************)
CvTexts == {<<"a">>, <<"b">>}

\* model outputs: a nested object, an object of aliases and ill-typed
\* values, and prose without JSON
OutputNested ==
    <<"{", "personal_info", ":", "{", "name", ":", "Ann", "}", ",",
      "skills", ":", "[", "python", "]", "}">>
OutputAliases ==
    <<"Here", "{", "Name", ":", "Bob", ",", "skills", ":", "python", ",",
      "education", ":", "{", "degree", ":", "BSc", "}", ",",
      "languages", ":", "null", "}">>
OutputProse == <<"Here", "is">>
ResponseTexts == {<<>>, OutputProse, OutputNested, OutputAliases}

Text(t) == [kind |-> "text", text |-> t]
Fails(kind) == [kind |-> kind, text |-> <<>>]
\* requests.post in call_ollama_api: a RequestException (transport or HTTP
\* status), a body without 'response', or a body with the response text
OllamaOutcomes == {Fails("request_exception"), Fails("no_response_field")}
                     \cup {Text(t) : t \in ResponseTexts}
\* requests.post in call_openrouter_api: a RequestException, a status other
\* than 200, a body without choices, a first choice without message/content,
\* or the content text
OpenRouterOutcomes == {Fails("request_exception"), Fails("status"),
                       Fails("no_choices"), Fails("bad_choice")}
                         \cup {Text(t) : t \in ResponseTexts}

Request(op, backend) == [op |-> op, backend |-> backend]
Attempt(backend, rec) == [backend |-> backend, rec |-> rec]
NoAttempt == Attempt("none", NoResult)
IsGeneration(req) == req.op \in {"generate", "chat"}
Generations(log) == Cardinality({i \in DOMAIN log : IsGeneration(log[i])})

NoPrev == [text |-> <<>>, result |-> NoResult, one_generation |-> FALSE]

NoErrorTag_unchecked(rec) == TRUE
\* "error" not in result
NoErrorTag(rec) == ~HasKey(rec, "error")

InitMain ==
    /\ cache = <<>>
    /\ api_key \in BOOLEAN
    /\ pc = "idle"
    /\ cv_text = <<>>
    /\ idx = 0
    /\ ridx = 0
    /\ result = NoResult
    /\ netlog = <<>>
    /\ last = NoAttempt
    /\ first_clean = NoAttempt
    /\ hit = "none"
    /\ io = [read |-> "none", write |-> "none"]
    /\ calls = 0
    /\ prev = NoPrev
InitNorm ==
    /\ response = <<>>
    /\ extracted = NoResult
InitKey ==
    /\ keyq = [model |-> "", text1 |-> <<>>, text2 |-> <<>>, done |-> FALSE,
               content1 |-> <<>>, content2 |-> <<>>, key1 |-> 0, key2 |-> 0]

NoAlias == [field |-> "", alias |-> "", value |-> JNull, context |-> "",
            done |-> FALSE, top |-> NoResult, nested |-> NoResult]
InitAlias ==
    /\ aliasq = NoAlias
NoMetrics ==
    [extracted |-> JNull, ground_truth |-> JNull, other_truth |-> JNull,
     scored |-> FALSE, scores |-> <<>>, other_scores |-> <<>>,
     rated |-> FALSE, rating |-> ScoreRaised, field_ratings |-> <<>>]
InitMetric ==
    /\ metricq = NoMetrics
NoBatch ==
    [evaluator |-> "", cv_files |-> <<>>, i |-> 1, m |-> 1, results |-> <<>>,
     all_results |-> <<>>, model_stats |-> <<>>, report |-> <<>>,
     comparison |-> <<>>, returned |-> <<>>, phase |-> "idle"]
InitBatch ==
    /\ batch = NoBatch
NoDocument ==
    [site |-> "", file |-> "", pc |-> "idle", thread |-> "none",
     results_container |-> [text |-> None, error |-> None],
     alive_seen |-> FALSE, error_seen |-> FALSE, fallback_ran |-> FALSE,
     written_after_choice |-> FALSE,
     acquired |-> [raised |-> FALSE, text |-> None], text |-> None,
     submitted |-> <<>>, results |-> <<>>, returned |-> NoResult]
InitDocument ==
    /\ doc = NoDocument
NoRace ==
    [key |-> 0, files |-> <<>>, record |-> <<>>, pc |-> <<>>, closed |-> <<>>,
     seen |-> {}]
InitRace ==
    /\ race = NoRace
NoChain ==
    [env |-> <<>>, args |-> <<>>, runs |-> <<>>]
InitChain ==
    /\ chainq = NoChain
InitEval ==
    InitAlias /\ InitMetric /\ InitBatch /\ InitDocument /\ InitRace /\ InitChain

Init == InitMain /\ InitNorm /\ InitKey /\ InitEval

(***************************************************************************)
(* CVInfoExtractor.extract_from_cv, one action per step.                   *)
(***************************************************************************)
\* a caller invokes extract_from_cv(t)
Call(t) ==
    /\ pc \in {"idle", "done", "raised"}
    /\ calls < MaxCalls
    /\ calls' = calls + 1
    /\ prev' = IF calls = 1
               THEN [text |-> cv_text, result |-> result,
                     one_generation |-> Generations(netlog) = 1]
               ELSE NoPrev
    /\ cv_text' = t
    /\ pc' = "check_ollama"
    /\ idx' = 0
    /\ ridx' = 0
    /\ result' = NoResult
    /\ netlog' = <<>>
    /\ last' = NoAttempt
    /\ first_clean' = NoAttempt
    /\ hit' = "none"
    /\ io' = [read |-> "none", write |-> "none"]
    /\ UNCHANGED <<cache, api_key, normVars, keyVars, evalVars>>

\* ollama_available = self.check_ollama_available()
CheckOllamaAvailable(up) ==
    /\ pc = "check_ollama"
    /\ netlog' = Append(netlog, Request("version", "ollama"))
    /\ IF up THEN pc' = "local_cache" /\ idx' = 1
             ELSE pc' = "check_openrouter" /\ idx' = idx
    /\ UNCHANGED <<cache, api_key, cv_text, ridx, result, last, first_clean, hit, io,
                   calls, prev, normVars, keyVars, evalVars>>

\* the cache lookup of the running invocation for backend
CacheLookup(backend, readable, missPc) ==
    LET cache_key == get_cache_key(cv_text, backend)
        cached_result == get_from_cache(cache, cache_key, readable)
    IN
    /\ io' = [io EXCEPT !.read =
                 IF cache_key \notin DOMAIN cache THEN "absent"
                 ELSE IF cached_result = None \/ IsRaise(cached_result)
                      THEN "failed" ELSE "ok"]
    /\ IF IsRaise(cached_result)
       THEN pc' = "raised" /\ UNCHANGED <<result, hit>>
       ELSE IF Truthy(cached_result)
       THEN pc' = "done" /\ result' = cached_result /\ hit' = backend
       ELSE pc' = missPc /\ UNCHANGED <<result, hit>>

\* cache_key = ...; cached_result = ...; if cached_result: return it
LocalCacheLookup(readable) ==
    /\ pc = "local_cache"
    /\ readable \/ get_cache_key(cv_text, models[idx]) \in DOMAIN cache
    /\ CacheLookup(models[idx], readable, "local_call")
    /\ UNCHANGED <<cache, api_key, cv_text, idx, ridx, netlog, last, first_clean, calls,
                   prev, normVars, keyVars, evalVars>>

HandleResponse_no_return(backend, resp, failPc) ==
    /\ pc' = failPc
    /\ IF resp.kind = "text" /\ resp.text # <<>>
       THEN LET res == extract_json_from_response(resp.text) IN
            /\ last' = Attempt(backend, res)
            /\ first_clean' = IF NoErrorTag(res) /\ first_clean = NoAttempt
                              THEN Attempt(backend, res) ELSE first_clean
       ELSE /\ last' = Attempt(backend, NoResult)
            /\ UNCHANGED first_clean
    /\ UNCHANGED <<cache, result, io>>
\* what follows once a called backend has given response (None or a text):
\* normalize, then cache and return, or go on at failPc
HandleResponse(backend, resp, failPc) ==
    IF resp.kind = "text" /\ resp.text # <<>>
    THEN LET res == extract_json_from_response(resp.text) IN
         IF IsRaise(res)
         THEN /\ pc' = "raised"
              /\ UNCHANGED <<cache, result, last, first_clean, io>>
         ELSE /\ last' = Attempt(backend, res)
              /\ first_clean' = IF NoErrorTag(res) /\ first_clean = NoAttempt
                                THEN Attempt(backend, res) ELSE first_clean
              /\ IF NoErrorTag(res)
                 THEN /\ \E written \in WriteOutcomes(res) :
                           /\ cache' = save_to_cache(cache,
                                           get_cache_key(cv_text, backend), res, written)
                           /\ io' = [io EXCEPT !.write =
                                       IF written = Len(Dump(res)) THEN "ok" ELSE "failed"]
                      /\ result' = res
                      /\ pc' = "done"
                 ELSE /\ pc' = failPc
                      /\ UNCHANGED <<cache, result, io>>
    ELSE /\ last' = Attempt(backend, NoResult)
         /\ pc' = failPc
         /\ UNCHANGED <<cache, result, first_clean, io>>

\* response = self.call_ollama_api(model_name, prompt) and the rest of the
\* loop body; the request for /api/tags changes nothing, whatever it gives,
\* since every name in self.models ends with ':latest'
CallOllamaApi(out) ==
    /\ pc = "local_call"
    /\ netlog' = netlog \o <<Request("tags", "ollama"),
                              Request("generate", models[idx])>>
    /\ HandleResponse(models[idx], out,
                      IF idx < Len(models) THEN "local_cache" ELSE "check_openrouter")
    /\ idx' = IF pc' = "local_cache" THEN idx + 1 ELSE idx
    /\ UNCHANGED <<api_key, cv_text, ridx, hit, calls, prev, normVars, keyVars, evalVars>>

\* if self.check_openrouter_available()
CheckOpenRouterAvailable(ok) ==
    /\ pc = "check_openrouter"
    /\ IF ~api_key
       THEN /\ ~ok
            /\ UNCHANGED netlog
       ELSE netlog' = Append(netlog, Request("auth", "openrouter"))
    /\ pc' = IF ok THEN "remote_cache" ELSE "failed"
    /\ UNCHANGED <<cache, api_key, cv_text, idx, ridx, result, last, first_clean, hit, io,
                   calls, prev, normVars, keyVars, evalVars>>

\* the cache lookup under "openrouter"
RemoteCacheLookup(readable) ==
    /\ pc = "remote_cache"
    /\ readable \/ get_cache_key(cv_text, "openrouter") \in DOMAIN cache
    /\ CacheLookup("openrouter", readable, "remote_call")
    /\ ridx' = IF pc' = "remote_call" THEN 1 ELSE ridx
    /\ UNCHANGED <<cache, api_key, cv_text, idx, netlog, last, first_clean, calls, prev,
                   normVars, keyVars, evalVars>>

\* one iteration of the loop of call_openrouter_api and, when the loop ends,
\* the rest of extract_from_cv
CallOpenRouterApi(out) ==
    /\ pc = "remote_call"
    /\ netlog' = Append(netlog, Request("chat", openrouter_models[ridx]))
    /\ CASE out.kind = "bad_choice" ->
              /\ pc' = "raised"
              /\ UNCHANGED <<cache, result, last, first_clean, io, ridx>>
         [] out.kind \in {"request_exception", "status", "no_choices"}
              /\ ridx < Len(openrouter_models) ->
              /\ ridx' = ridx + 1
              /\ pc' = "remote_call"
              /\ UNCHANGED <<cache, result, last, first_clean, io>>
         [] OTHER ->
              /\ HandleResponse("openrouter", out, "failed")
              /\ UNCHANGED ridx
    /\ UNCHANGED <<api_key, cv_text, idx, hit, calls, prev, normVars, keyVars, evalVars>>

\* print("All extraction methods failed"); return {...}
AllFailed ==
    /\ pc = "failed"
    /\ result' = TerminalRecord
    /\ pc' = "done"
    /\ UNCHANGED <<cache, api_key, cv_text, idx, ridx, netlog, last, first_clean, hit, io,
                   calls, prev, normVars, keyVars, evalVars>>

Next ==
    \/ \E t \in CvTexts : Call(t)
    \/ \E up \in BOOLEAN : CheckOllamaAvailable(up)
    \/ \E readable \in BOOLEAN : LocalCacheLookup(readable)
    \/ \E out \in OllamaOutcomes : CallOllamaApi(out)
    \/ \E ok \in BOOLEAN : CheckOpenRouterAvailable(ok)
    \/ \E readable \in BOOLEAN : RemoteCacheLookup(readable)
    \/ \E out \in OpenRouterOutcomes : CallOpenRouterApi(out)
    \/ AllFailed

Spec == Init /\ [][Next]_vars

(***************************************************************************)
(* extract_json_from_response on its own, applied to raw responses built   *)
(* from up to MaxFrags fragments.                                          *)
(***************************************************************************)
Fragments ==
    { <<"Here">>, <<"{">>, <<"}">>, <<"[">>, <<"]">>, <<FenceJson>>, <<Fence>>,
      <<"{", "name", ":", "Ann", "}">>, <<"42">>, <<"name", ":">>,
      <<FenceJson, "{", "name", ":", "Ann", "}", Fence>> }

RECURSIVE Concats(_)
Concats(n) ==
    IF n = 0 THEN {<<>>}
    ELSE Concats(n - 1) \cup {s \o f : s \in Concats(n - 1), f \in Fragments}
RawResponses == Concats(MaxFrags)

InitNormalizer ==
    /\ InitMain /\ api_key
    /\ InitKey /\ InitEval
    /\ response \in RawResponses
    /\ extracted = NoResult

ExtractJson ==
    /\ extracted = NoResult
    /\ extracted' = extract_json_from_response(response)
    /\ UNCHANGED <<response, mainVars, keyVars, evalVars>>

SpecNormalizer == InitNormalizer /\ [][ExtractJson]_vars

(***************************************************************************)
(* get_cache_key on its own: two calls with the same model identifier.     *)
(***************************************************************************)
RECURSIVE TextsUpTo(_)
TextsUpTo(n) ==
    IF n = 0 THEN {<<>>}
    ELSE TextsUpTo(n - 1) \cup {Append(t, c) : t \in TextsUpTo(n - 1), c \in {"a", "b"}}

InitKeys ==
    /\ InitMain /\ api_key
    /\ InitNorm /\ InitEval
    /\ \E m \in {models[i] : i \in DOMAIN models} \cup {"openrouter"} :
         \E t1 \in TextsUpTo(MaxTextLen), t2 \in TextsUpTo(MaxTextLen) :
            keyq = [model |-> m, text1 |-> t1, text2 |-> t2, done |-> FALSE,
                    content1 |-> <<>>, content2 |-> <<>>, key1 |-> 0, key2 |-> 0]

GetCacheKeys ==
    /\ ~keyq.done
    /\ keyq' = [keyq EXCEPT !.done = TRUE,
                            !.content1 = KeyContent(keyq.text1, keyq.model),
                            !.content2 = KeyContent(keyq.text2, keyq.model),
                            !.key1 = get_cache_key(keyq.text1, keyq.model),
                            !.key2 = get_cache_key(keyq.text2, keyq.model)]
    /\ UNCHANGED <<mainVars, normVars, evalVars>>

SpecKeys == InitKeys /\ [][GetCacheKeys]_vars

(***************************************************************************)
(* _normalize_extraction_result on its own, applied to a model output that *)
(* gives a personal_info field under a top-level alias and to one that     *)
(* gives it in the nested form.                                            *)
(***************************************************************************)
NameAliases == {"name", "Name", "NAME", "fullname", "FullName", "FULLNAME",
                "full_name", "Full_Name", "FULL_NAME"}
EmailAliases == {"email", "Email", "EMAIL", "email_address", "Email_Address",
                 "EMAIL_ADDRESS"}
AliasField(alias) == IF alias \in NameAliases THEN "name" ELSE "email"
AliasValues ==
    {JStr("Ann Lee"), JStr(""), JNull, JNum("42"), JList(<<JStr("x")>>),
     JDict(<< <<"first", JStr("Ann")>> >>)}
AliasContexts == {"alone", "among_others", "beside_personal_info"}

OtherSkills == <<"skills", JList(<<JStr("python")>>)>>
OtherPhone == <<"phone", JStr("1")>>
TopLevelOutput(alias, v, context) ==
    CASE context = "alone" -> JDict(<< <<alias, v>> >>)
      [] context = "among_others" -> JDict(<<OtherSkills, <<alias, v>>, OtherPhone>>)
      [] OTHER -> JDict(<< <<"personal_info", JDict(<<OtherPhone>>)>>, <<alias, v>> >>)
NestedOutput(field, v, context) ==
    CASE context = "alone" -> JDict(<< <<"personal_info", JDict(<< <<field, v>> >>)>> >>)
      [] context = "among_others" ->
           JDict(<<OtherSkills, <<"personal_info", JDict(<< <<field, v>> >>)>>,
                   OtherPhone>>)
      [] OTHER -> JDict(<< <<"personal_info", JDict(<<OtherPhone, <<field, v>> >>)>> >>)

InitAliases ==
    /\ InitMain /\ api_key
    /\ InitNorm /\ InitKey /\ InitMetric /\ InitBatch /\ InitDocument /\ InitRace
    /\ InitChain
    /\ \E a \in NameAliases \cup EmailAliases, v \in AliasValues, c \in AliasContexts :
         aliasq = [NoAlias EXCEPT !.field = AliasField(a), !.alias = a,
                                  !.value = v, !.context = c]

NormalizeBoth ==
    /\ ~aliasq.done
    /\ aliasq' = [aliasq EXCEPT
          !.done = TRUE,
          !.top = _normalize_extraction_result(
                      TopLevelOutput(aliasq.alias, aliasq.value, aliasq.context)),
          !.nested = _normalize_extraction_result(
                      NestedOutput(aliasq.field, aliasq.value, aliasq.context))]
    /\ UNCHANGED <<mainVars, normVars, keyVars, metricq, batch, doc, race, chainq>>

SpecAliases == InitAliases /\ [][NormalizeBoth]_vars

(***************************************************************************)
(* The scoring functions on their own, applied to pairs of an extracted    *)
(* record and a ground truth.  For a ground truth in canonical naming that *)
(* has exactly the fields of the flat naming, other_truth is the same      *)
(* ground truth in flat naming.                                            *)
(***************************************************************************)
SkillTokens == {"Python", "python", "SQL", "Java"}
RECURSIVE SkillLists(_)
SkillLists(n) ==
    IF n = 0 THEN {<<>>}
    ELSE SkillLists(n - 1)
           \cup {Append(s, JStr(t)) : s \in SkillLists(n - 1), t \in SkillTokens}

EmptyCanonicalRecord ==
    JDict(<< <<"personal_info", JDict(<<>>)>>, <<"education", JList(<<>>)>>,
             <<"experience", JList(<<>>)>>, <<"skills", JList(<<>>)>>,
             <<"languages", JList(<<>>)>> >>)
AnnPersonalInfo ==
    JDict(<< <<"name", JStr("Ann")>>, <<"email", JStr("a@x")>>, <<"phone", JStr("1")>> >>)
AnnEducation == JList(<< JDict(<< <<"degree", JStr("BSc")>> >>) >>)
AnnExperience == JList(<< JDict(<< <<"company", JStr("Acme")>>, <<"years", JNum("42")>> >>) >>)
FullCanonicalRecord ==
    JDict(<< <<"personal_info", AnnPersonalInfo>>, <<"education", AnnEducation>>,
             <<"experience", AnnExperience>>,
             <<"skills", JList(<<JStr("Python"), JStr("SQL")>>)>>,
             <<"languages", JList(<<JStr("English")>>)>> >>)
\* canonical naming, the fields that the flat naming has
SixFieldRecord(skills) ==
    JDict(<< <<"personal_info", AnnPersonalInfo>>, <<"education", AnnEducation>>,
             <<"experience", AnnExperience>>, <<"skills", JList(skills)>> >>)
FlatRecord(skills) ==
    JDict(<< <<"Name", JStr("Ann")>>, <<"Skills", JList(skills)>> >>)
BlankSkillsRecord == JDict(<< <<"skills", JList(<<JStr(" "), JStr("")>>)>> >>)
NullSkillsRecord == JDict(<< <<"skills", JNull>> >>)
IllTypedFlatRecord ==
    JDict(<< <<"Skills", JList(<<JNum("42")>>)>>,
             <<"Education", JList(<<JStr("BSc")>>)>> >>)

MetricRecords ==
    {JDict(<<>>), EmptyCanonicalRecord, FullCanonicalRecord, TerminalRecord,
     BlankSkillsRecord, NullSkillsRecord, IllTypedFlatRecord,
     SixFieldRecord(<<JStr("Python"), JStr("SQL")>>),
     SixFieldRecord(<<JStr("python"), JStr("Java")>>),
     _convert_app_format_to_eval_format(SixFieldRecord(<<JStr("Python"), JStr("SQL")>>)),
     _convert_app_format_to_eval_format(EmptyCanonicalRecord)}
      \cup {JDict(<< <<"skills", JList(s)>> >>) : s \in SkillLists(MaxSkills)}
      \cup {FlatRecord(s) : s \in SkillLists(1)}

\* whether a ground truth in canonical naming has the personal_info mapping
\* with name, email and phone, the three lists, and nothing else
FlatWritable(g) ==
    /\ {g.v[i][1] : i \in DOMAIN g.v} = {"personal_info", "education", "experience", "skills"}
    /\ GetKey(g, "personal_info").k = "dict"
    /\ {GetKey(g, "personal_info").v[i][1] : i \in DOMAIN GetKey(g, "personal_info").v}
          = {"name", "email", "phone"}

InitMetrics ==
    /\ InitMain /\ api_key
    /\ InitNorm /\ InitKey /\ InitAlias /\ InitBatch /\ InitDocument /\ InitRace
    /\ InitChain
    /\ \E e \in MetricRecords, g \in MetricRecords :
         metricq = [NoMetrics EXCEPT
                       !.extracted = e, !.ground_truth = g,
                       !.other_truth = IF FlatWritable(g)
                                       THEN _convert_app_format_to_eval_format(g)
                                       ELSE g]

\* EvaluationMetrics.calculate_detailed_metrics against the ground truth in
\* each of its namings
CalculateDetailedMetrics ==
    /\ ~metricq.scored
    /\ metricq' = [metricq EXCEPT
          !.scored = TRUE,
          !.scores = calculate_detailed_metrics(metricq.extracted, metricq.ground_truth),
          !.other_scores = calculate_detailed_metrics(metricq.extracted,
                                                      metricq.other_truth)]
    /\ UNCHANGED <<mainVars, normVars, keyVars, aliasq, batch, doc, race, chainq>>

\* OptimizedCVEvaluator: the accuracy recorded for a pipeline result, and the
\* accuracy of each field of the ground truth
CalculateOverallAccuracy ==
    /\ ~metricq.rated
    /\ LET standardized == StandardizedResult(metricq.extracted) IN
       metricq' = [metricq EXCEPT
          !.rated = TRUE,
          !.rating = RecordedAccuracy(metricq.extracted, metricq.ground_truth),
          !.field_ratings =
              [field \in {f \in FlatFields : HasKey(metricq.ground_truth, f)} |->
                  FlatFieldAccuracy(standardized, metricq.ground_truth, field)]]
    /\ UNCHANGED <<mainVars, normVars, keyVars, aliasq, batch, doc, race, chainq>>

SpecMetrics == InitMetrics /\ [][CalculateDetailedMetrics \/ CalculateOverallAccuracy]_vars

(***************************************************************************)
(* The batch evaluators: CVEvaluator.evaluate_dataset followed by          *)
(* generate_report, and OptimizedCVEvaluator.evaluate_dataset.  A data set *)
(* is the list of its CV files, each given by the content of its           *)
(* ground-truth file.  SpecBatch draws the evaluator and the data set and  *)
(* runs the loop one evaluate_single_cv call at a time.                    *)
(***************************************************************************)
\* the models argument of evaluate_dataset
evaluated_models == <<"llama3", "phi">>
EvaluatedModels == {evaluated_models[j] : j \in DOMAIN evaluated_models}

\* a ground-truth file that does not exist
NoGroundTruth == [k |-> "none", v |-> "missing"]
GroundTruthFiles ==
    {NoGroundTruth,
     SixFieldRecord(<<JStr("Python"), JStr("SQL")>>),
     _convert_app_format_to_eval_format(SixFieldRecord(<<JStr("Python"), JStr("SQL")>>)),
     IllTypedFlatRecord}
RECURSIVE Datasets(_)
Datasets(n) ==
    IF n = 0 THEN {<<>>}
    ELSE Datasets(n - 1)
           \cup {Append(s, g) : s \in {d \in Datasets(n - 1) : Len(d) = n - 1},
                                g \in GroundTruthFiles}

\* what a call of the PDF extractor gives
AcquiredTexts ==
    {None, JStr(""), JStr("   "), JStr("Ann"), JStr("Ann Lee, Python developer")}
AcquisitionOutcomes ==
    {[raised |-> FALSE, text |-> t] : t \in AcquiredTexts}
       \cup {[raised |-> TRUE, text |-> None]}
\* str(e) of the exception that the PDF extractor raises
AcquisitionError == "bad pdf"

\* what extract_from_cv gives to process_file, and the seconds it takes
Extractions ==
    {[data |-> FullCanonicalRecord, seconds |-> 1],
     [data |-> SixFieldRecord(<<JStr("python"), JStr("Java")>>), seconds |-> 2],
     [data |-> TerminalRecord, seconds |-> 3]}
\* the same, with the exception that extract_text raises inside process_file
PipelineOutcomes ==
    Extractions \cup {[data |-> Raised(AcquisitionError), seconds |-> 1]}

\* the stem of the i-th file found by cv_dir.glob("*.pdf")
CvName(i) == "cv" \o ToString(i)

\* the except branch of process_file
error_result(message, filename, model) ==
    JDict(<< <<"error", JStr(message)>>,
             <<"metadata",
               JDict(<< <<"filename", JStr(filename)>>,
                        <<"model_used", JStr(model)>>,
                        <<"processing_status", JStr("failed")>> >>)>> >>)

process_file_without_metadata(extraction, filename, model) ==
    IF IsRaise(extraction) THEN error_result(extraction.v, filename, model)
    ELSE extraction
\* process_file once extract_text has raised or extract_from_cv has
\* returned: the error record of the except branch, or the record with its
\* metadata
process_file(extraction, filename, model) ==
    IF IsRaise(extraction) THEN error_result(extraction.v, filename, model)
    ELSE JDict(DictSet(extraction.v, "metadata",
                       JDict(<< <<"filename", JStr(filename)>>,
                                <<"model_used", JStr(model)>>,
                                <<"processing_status", JStr("success")>> >>)))

CV_evaluate_single_cv_failing_on_error(cv, truth, model, x) ==
    IF truth = NoGroundTruth \/ IsRaise(x.data) \/ HasKey(x.data, "error")
    THEN [filename |-> cv, model |-> model, accuracy |-> Zero, precision |-> Zero,
          recall |-> Zero, f1_score |-> Zero, extraction_time |-> Zero,
          errors |-> <<"failed">>]
    ELSE LET extracted_data == process_file(x.data, cv \o ".pdf", model)
             precision == calculate_precision(extracted_data, truth)
             recall == calculate_recall(extracted_data, truth)
         IN [filename |-> cv, model |-> model,
             accuracy |-> calculate_accuracy(extracted_data, truth),
             precision |-> precision,
             recall |-> recall,
             f1_score |-> calculate_f1_score(precision, recall),
             extraction_time |-> Frac(x.seconds, 1),
             errors |-> <<>>]
\* CVEvaluator.evaluate_single_cv: an EvaluationResult
CV_evaluate_single_cv(cv, truth, model, x) ==
    IF truth = NoGroundTruth
    THEN [filename |-> cv, model |-> model, accuracy |-> Zero, precision |-> Zero,
          recall |-> Zero, f1_score |-> Zero, extraction_time |-> Zero,
          errors |-> <<"Ground truth file not found">>]
    ELSE LET extracted_data == process_file(x.data, cv \o ".pdf", model)
             precision == calculate_precision(extracted_data, truth)
             recall == calculate_recall(extracted_data, truth)
         IN [filename |-> cv, model |-> model,
             accuracy |-> calculate_accuracy(extracted_data, truth),
             precision |-> precision,
             recall |-> recall,
             f1_score |-> calculate_f1_score(precision, recall),
             extraction_time |-> Frac(x.seconds, 1),
             errors |-> <<>>]

\* sum(values) / len(values) if values else 0
RECURSIVE Sum(_, _)
Sum(values, i) == IF i > Len(values) THEN Zero ELSE FAdd(values[i], Sum(values, i + 1))
Average(values) ==
    IF values # <<>> THEN FDiv(Sum(values, 1), Frac(Len(values), 1)) ELSE Zero

\* [r for r in model_results if not r.errors]
SuccessfulResults_unfiltered(model_results) == model_results
SuccessfulResults(model_results) ==
    SelectSeq(model_results, LAMBDA r : r.errors = <<>>)
FailedResults(model_results) ==
    SelectSeq(model_results, LAMBDA r : r.errors # <<>>)

\* report["summary"] of generate_report
ReportSummary(results) ==
    [model \in {m \in DOMAIN results : results[m] # <<>>} |->
        LET model_results == results[model]
            successes == SuccessfulResults(model_results)
        IN [total_cvs |-> Len(model_results),
            successful_extractions |-> Len(successes),
            failed_extractions |-> Len(FailedResults(model_results)),
            avg_accuracy |-> Average([i \in DOMAIN successes |-> successes[i].accuracy]),
            avg_precision |-> Average([i \in DOMAIN successes |-> successes[i].precision]),
            avg_recall |-> Average([i \in DOMAIN successes |-> successes[i].recall]),
            avg_f1_score |-> Average([i \in DOMAIN successes |-> successes[i].f1_score]),
            avg_extraction_time |->
                Average([i \in DOMAIN successes |-> successes[i].extraction_time])]]

\* results[model] of OptimizedCVEvaluator.evaluate_single_cv, without
\* extracted_data; accuracy keeps whether calculate_overall_accuracy raised
Optimized_evaluate_single_cv(cv, truth, xs) ==
    [model \in EvaluatedModels |->
        LET pipeline_result == process_file(xs[model].data, cv \o ".pdf", model)
            standardized == StandardizedResult(pipeline_result)
        IN [accuracy |-> RecordedAccuracy(pipeline_result, truth),
            extraction_time |-> Frac(xs[model].seconds, 1),
            error |-> Get(standardized, "_error", None)]]

\* model_stats before the loop, and after the update for one result
InitialStats ==
    [model \in EvaluatedModels |->
        [total |-> 0, successful |-> 0, failed |-> 0,
         total_accuracy |-> Zero, total_time |-> Zero]]
UpdateStats(model_stats, results) ==
    [model \in EvaluatedModels |->
        LET stats == model_stats[model]
            model_result == results[model]
        IN IF model_result.error = None
           THEN [stats EXCEPT !.total = @ + 1, !.successful = @ + 1,
                    !.total_accuracy = FAdd(@, model_result.accuracy.value),
                    !.total_time = FAdd(@, model_result.extraction_time)]
           ELSE [stats EXCEPT !.total = @ + 1, !.failed = @ + 1]]

\* summary of OptimizedCVEvaluator.evaluate_dataset
OptimizedSummary(model_stats) ==
    [model \in EvaluatedModels |->
        LET stats == model_stats[model] IN
        [total_cvs |-> stats.total,
         successful |-> stats.successful,
         failed |-> stats.failed,
         success_rate |-> IF stats.total > 0
                          THEN Frac(stats.successful * 100, stats.total) ELSE Zero,
         avg_accuracy |-> IF stats.successful > 0
                          THEN FDiv(stats.total_accuracy, Frac(stats.successful, 1))
                          ELSE Zero,
         avg_time |-> IF stats.successful > 0
                      THEN FDiv(stats.total_time, Frac(stats.successful, 1))
                      ELSE Zero]]

InitBatches ==
    /\ InitMain /\ api_key
    /\ InitNorm /\ InitKey /\ InitAlias /\ InitMetric /\ InitDocument /\ InitRace
    /\ InitChain
    /\ \E evaluator \in {"CVEvaluator", "OptimizedCVEvaluator"},
          cv_files \in Datasets(MaxItems) :
         batch = [NoBatch EXCEPT
                     !.evaluator = evaluator,
                     !.cv_files = cv_files,
                     !.phase = "running",
                     !.results = IF evaluator = "CVEvaluator"
                                 THEN [model \in EvaluatedModels |-> <<>>] ELSE <<>>,
                     !.model_stats = IF evaluator = "CVEvaluator"
                                     THEN <<>> ELSE InitialStats]

\* one pass of the inner loop of CVEvaluator.evaluate_dataset, process_file
\* ending in one of outcomes
EvaluateSingleCvOn(outcomes) ==
    /\ batch.evaluator = "CVEvaluator"
    /\ batch.phase = "running"
    /\ batch.i <= Len(batch.cv_files)
    /\ LET model == evaluated_models[batch.m]
           truth == batch.cv_files[batch.i]
           last_model == batch.m = Len(evaluated_models)
       IN \E x \in IF truth = NoGroundTruth
                   THEN {CHOOSE e \in outcomes : TRUE} ELSE outcomes :
            batch' = [batch EXCEPT
               !.results[model] =
                   Append(@, CV_evaluate_single_cv(CvName(batch.i), truth, model, x)),
               !.returned =
                   Append(@, [model |-> model, item |-> batch.i,
                              record |-> IF truth = NoGroundTruth THEN NoResult
                                         ELSE process_file(x.data,
                                                 CvName(batch.i) \o ".pdf", model)]),
               !.m = IF last_model THEN 1 ELSE @ + 1,
               !.i = IF last_model THEN @ + 1 ELSE @]
    /\ UNCHANGED <<mainVars, normVars, keyVars, aliasq, metricq, doc, race, chainq>>

EvaluateSingleCv == EvaluateSingleCvOn(Extractions)

\* a < b on fractions
FLt(a, b) == a.n * b.d < b.n * a.d

\* the models of the summary in the order of report["summary"].items()
SummaryOrder(summary) ==
    SelectSeq(evaluated_models, LAMBDA model : model \in DOMAIN summary)
\* max(items, key=...) and min(items, key=...): the first item that no item beats
FirstMax(order, values) ==
    order[CHOOSE n \in DOMAIN order :
            /\ \A j \in DOMAIN order : FLe(values[order[j]], values[order[n]])
            /\ \A j \in 1..(n - 1) : FLt(values[order[j]], values[order[n]])]
FirstMin(order, values) ==
    order[CHOOSE n \in DOMAIN order :
            /\ \A j \in DOMAIN order : FLe(values[order[n]], values[order[j]])
            /\ \A j \in 1..(n - 1) : FLt(values[order[n]], values[order[j]])]

\* report["model_comparison"] of generate_report, for a summary that is not empty
ModelComparison(summary) ==
    IF Len(evaluated_models) > 1
    THEN LET order == SummaryOrder(summary)
             best_accuracy ==
                 FirstMax(order, [model \in DOMAIN summary |-> summary[model].avg_accuracy])
             best_speed ==
                 FirstMin(order,
                          [model \in DOMAIN summary |-> summary[model].avg_extraction_time])
         IN [best_accuracy |-> [model |-> best_accuracy,
                                score |-> summary[best_accuracy].avg_accuracy],
             fastest |-> [model |-> best_speed,
                          time |-> summary[best_speed].avg_extraction_time]]
    ELSE <<>>

\* best_model and fastest_model of OptimizedCVEvaluator.evaluate_dataset: the
\* loop over the models from the n-th on; fastest_time is inf while
\* fastest_model is ""
RECURSIVE OptimizedComparison(_, _, _)
OptimizedComparison(summary, n, acc) ==
    IF n > Len(evaluated_models) THEN acc
    ELSE LET model == evaluated_models[n]
             stats == summary[model]
             better == FLt(acc.best_accuracy, stats.avg_accuracy)
             faster == /\ acc.fastest_model = "" \/ FLt(stats.avg_time, acc.fastest_time)
                       /\ stats.successful > 0
         IN OptimizedComparison(summary, n + 1,
               [best_accuracy |-> IF better THEN stats.avg_accuracy ELSE acc.best_accuracy,
                best_model |-> IF better THEN model ELSE acc.best_model,
                fastest_time |-> IF faster THEN stats.avg_time ELSE acc.fastest_time,
                fastest_model |-> IF faster THEN model ELSE acc.fastest_model])

\* CVEvaluator.generate_report on the results of evaluate_dataset; the
\* comparison of the models takes max() of the summary
GenerateReport ==
    /\ batch.evaluator = "CVEvaluator"
    /\ batch.phase = "running"
    /\ batch.i > Len(batch.cv_files)
    /\ LET summary == ReportSummary(batch.results) IN
       IF Len(evaluated_models) > 1 /\ DOMAIN summary = {}
       THEN batch' = [batch EXCEPT !.phase = "raised"]
       ELSE batch' = [batch EXCEPT !.phase = "reported", !.report = summary,
                                   !.comparison = ModelComparison(summary)]
    /\ UNCHANGED <<mainVars, normVars, keyVars, aliasq, metricq, doc, race, chainq>>

\* CVEvaluator on data sets of one or two files whose ground truth is
\* missing or canonical, process_file ending in any of its outcomes
ItemGroundTruths ==
    {NoGroundTruth, FullCanonicalRecord, SixFieldRecord(<<JStr("Python"), JStr("SQL")>>)}
InitItems ==
    /\ InitMain /\ api_key
    /\ InitNorm /\ InitKey /\ InitAlias /\ InitMetric /\ InitDocument /\ InitRace
    /\ InitChain
    /\ \E cv_files \in {<<g>> : g \in ItemGroundTruths}
                        \cup {<<g, h>> : g \in ItemGroundTruths, h \in ItemGroundTruths} :
         batch = [NoBatch EXCEPT
                     !.evaluator = "CVEvaluator",
                     !.cv_files = cv_files,
                     !.phase = "running",
                     !.results = [model \in EvaluatedModels |-> <<>>]]
EvaluateItem == EvaluateSingleCvOn(PipelineOutcomes)

SpecItems == InitItems /\ [][EvaluateItem \/ GenerateReport]_vars

\* one pass of the loop of OptimizedCVEvaluator.evaluate_dataset
OptimizedEvaluateSingleCv ==
    /\ batch.evaluator = "OptimizedCVEvaluator"
    /\ batch.phase = "running"
    /\ batch.i <= Len(batch.cv_files)
    /\ LET truth == batch.cv_files[batch.i] IN
       IF truth = NoGroundTruth
       THEN batch' = [batch EXCEPT !.i = @ + 1]
       ELSE \E xs \in [EvaluatedModels -> Extractions] :
              LET results == Optimized_evaluate_single_cv(CvName(batch.i), truth, xs) IN
              IF \E model \in EvaluatedModels : results[model].accuracy.raised
              THEN batch' = [batch EXCEPT !.phase = "raised"]
              ELSE batch' = [batch EXCEPT
                      !.all_results =
                          Append(@, [cv_name |-> CvName(batch.i), results |-> results]),
                      !.model_stats = UpdateStats(@, results),
                      !.i = @ + 1]
    /\ UNCHANGED <<mainVars, normVars, keyVars, aliasq, metricq, doc, race, chainq>>

\* the final statistics of OptimizedCVEvaluator.evaluate_dataset
OptimizedSummarize ==
    /\ batch.evaluator = "OptimizedCVEvaluator"
    /\ batch.phase = "running"
    /\ batch.i > Len(batch.cv_files)
    /\ LET summary == OptimizedSummary(batch.model_stats)
           compared == OptimizedComparison(summary, 1,
                          [best_accuracy |-> Zero, best_model |-> "",
                           fastest_time |-> Zero, fastest_model |-> ""])
       IN batch' = [batch EXCEPT
             !.phase = "reported",
             !.report = summary,
             !.comparison = [best_model |-> compared.best_model,
                             fastest_model |-> compared.fastest_model]]
    /\ UNCHANGED <<mainVars, normVars, keyVars, aliasq, metricq, doc, race, chainq>>

SpecBatch ==
    InitBatches /\ [][EvaluateSingleCv \/ GenerateReport
                        \/ OptimizedEvaluateSingleCv \/ OptimizedSummarize]_vars

(***************************************************************************)
(* Text acquisition before extraction, at its three call sites: process_pdf*)
(* of web/app.py, process_pdf of cv_extractor/web/app.py, which races a    *)
(* primary acquisition thread against a deadline, and process_file of      *)
(* CVExtractionPipeline.  The PDF extractor is an outside collaborator:    *)
(* each of its calls gives a text, None, or raises.                        *)
(***************************************************************************)
\* the models argument of process_pdf
selected_models == <<"llama3", "phi">>

\* text.strip() on the acquired texts
Strip(text) == IF text = "   " THEN "" ELSE text

\* not text or len(text.strip()) < 10
TooShort(text) == ~Truthy(text) \/ Len(Strip(text.v)) < 10

\* the return values of web process_pdf without results of the models
WebNoTextResult ==
    JDict(<< <<"error",
       JDict(<< <<"error", JStr("Could not extract meaningful text from PDF")>>,
                <<"personal_info",
                  JDict(<< <<"name", JStr("Extraction Error")>>, <<"email", JStr("")>>,
                           <<"phone", JStr("")>>, <<"address", JStr("")>> >>)>>,
                <<"education", JList(<<>>)>>, <<"experience", JList(<<>>)>>,
                <<"skills", JList(<<JStr("PDF extraction failed")>>)>>,
                <<"languages", JList(<<>>)>> >>)>> >>)
WebFailedResult ==
    JDict(<< <<"error",
       JDict(<< <<"error", JStr("PDF processing failed: " \o AcquisitionError)>>,
                <<"personal_info",
                  JDict(<< <<"name", JStr("Processing Error")>>, <<"email", JStr("")>>,
                           <<"phone", JStr("")>>, <<"address", JStr("")>> >>)>>,
                <<"education", JList(<<>>)>>, <<"experience", JList(<<>>)>>,
                <<"skills", JList(<<JStr("Processing failed")>>)>>,
                <<"languages", JList(<<>>)>> >>)>> >>)
\* the return value of cv_extractor process_pdf for a text that is None or empty
NoTextResult ==
    JDict(<< <<"error",
       JDict(<< <<"error", JStr("Could not extract text from PDF")>>,
                <<"Name", JStr("Extraction Error")>>, <<"Email", JStr("")>>,
                <<"Phone", JStr("")>>, <<"Address", JStr("")>>,
                <<"Education", JList(<<>>)>>, <<"Experience", JList(<<>>)>>,
                <<"Skills", JList(<<JStr("PDF extraction failed")>>)>> >>)>> >>)

\* extract_text_fallback: the text it returns for what the other method gives
extract_text_fallback(o) ==
    IF o.raised
    THEN JStr("Failed to extract text from PDF. Error: " \o AcquisitionError)
    ELSE o.text

\* extraction_thread.is_alive() or results_container["error"] is not None
NeedsFallback_deadline_only(alive, results_container) == alive
NeedsFallback(alive, results_container) ==
    alive \/ results_container.error # None

\* the files process_file is called on, and the records extract_from_cv returns
DocumentFiles == {"cv1.pdf", "cv1.txt", "absent.pdf"}
ExtractedRecords == {FullCanonicalRecord, TerminalRecord}
Exception(name) == [k |-> "raise", v |-> name]

InitDocuments ==
    /\ InitMain /\ api_key
    /\ InitNorm /\ InitKey /\ InitAlias /\ InitMetric /\ InitBatch /\ InitRace
    /\ InitChain
    /\ \E site \in {"web", "cv_extractor", "pipeline"}, file \in DocumentFiles :
         /\ site # "pipeline" => file = "cv1.pdf"
         /\ doc = [NoDocument EXCEPT !.site = site, !.file = file, !.pc = "start"]

\* web process_pdf up to the loop over the models
WebExtractText ==
    /\ doc.site = "web"
    /\ doc.pc = "start"
    /\ \E o \in AcquisitionOutcomes :
         doc' = IF o.raised
                THEN [doc EXCEPT !.acquired = o, !.pc = "done", !.returned = WebFailedResult]
                ELSE IF TooShort(o.text)
                THEN [doc EXCEPT !.acquired = o, !.pc = "done", !.returned = WebNoTextResult]
                ELSE [doc EXCEPT !.acquired = o, !.pc = "extract", !.text = o.text]
    /\ UNCHANGED <<mainVars, normVars, keyVars, aliasq, metricq, batch, race, chainq>>

\* cv_extractor process_pdf: extraction_thread.start()
StartPrimary ==
    /\ doc.site = "cv_extractor"
    /\ doc.pc = "start"
    /\ doc' = [doc EXCEPT !.pc = "join", !.thread = "running"]
    /\ UNCHANGED <<mainVars, normVars, keyVars, aliasq, metricq, batch, race, chainq>>

\* extract_text_primary, in its thread: the write to results_container
PrimaryWrites ==
    /\ doc.thread = "running"
    /\ \E o \in AcquisitionOutcomes :
         doc' = [doc EXCEPT
            !.thread = "written",
            !.results_container =
                IF o.raised
                THEN [@ EXCEPT !.error = JStr("Error in primary extraction: "
                                              \o AcquisitionError)]
                ELSE [@ EXCEPT !.text = o.text],
            !.written_after_choice = doc.pc \in {"have_text", "extract", "done"}]
    /\ UNCHANGED <<mainVars, normVars, keyVars, aliasq, metricq, batch, race, chainq>>

\* extract_text_primary returns and its thread ends
PrimaryExits ==
    /\ doc.thread = "written"
    /\ doc' = [doc EXCEPT !.thread = "dead"]
    /\ UNCHANGED <<mainVars, normVars, keyVars, aliasq, metricq, batch, race, chainq>>

\* extraction_thread.join(timeout) returns: the thread has ended, or the
\* timeout has elapsed
JoinReturns ==
    /\ doc.pc = "join"
    /\ doc' = [doc EXCEPT !.pc = "check"]
    /\ UNCHANGED <<mainVars, normVars, keyVars, aliasq, metricq, batch, race, chainq>>

\* the test after the join, and the branch without fallback
CheckPrimary ==
    /\ doc.pc = "check"
    /\ LET alive == doc.thread # "dead" IN
       doc' = IF NeedsFallback(alive, doc.results_container)
              THEN [doc EXCEPT !.pc = "fallback", !.alive_seen = alive,
                               !.error_seen = doc.results_container.error # None]
              ELSE [doc EXCEPT !.pc = "have_text", !.alive_seen = alive,
                               !.error_seen = doc.results_container.error # None,
                               !.text = doc.results_container.text]
    /\ UNCHANGED <<mainVars, normVars, keyVars, aliasq, metricq, batch, race, chainq>>

\* text = extract_text_fallback(), in the calling thread
RunFallback ==
    /\ doc.pc = "fallback"
    /\ \E o \in AcquisitionOutcomes :
         doc' = [doc EXCEPT !.pc = "have_text", !.fallback_ran = TRUE,
                            !.acquired = o,
                            !.text = extract_text_fallback(o)]
    /\ UNCHANGED <<mainVars, normVars, keyVars, aliasq, metricq, batch, race, chainq>>

\* cv_extractor process_pdf: if not text
CheckText ==
    /\ doc.pc = "have_text"
    /\ doc' = IF ~Truthy(doc.text)
              THEN [doc EXCEPT !.pc = "done", !.returned = NoTextResult]
              ELSE [doc EXCEPT !.pc = "extract"]
    /\ UNCHANGED <<mainVars, normVars, keyVars, aliasq, metricq, batch, race, chainq>>

\* one pass of the loop over the models of either process_pdf, and its return
ExtractWithModel ==
    /\ doc.pc = "extract"
    /\ \E info \in ExtractedRecords :
         LET model == selected_models[Len(doc.submitted) + 1]
             results == Append(doc.results, <<model, info>>)
         IN doc' = [doc EXCEPT
               !.submitted = Append(@, doc.text),
               !.results = results,
               !.pc = IF Len(results) = Len(selected_models) THEN "done" ELSE @,
               !.returned = IF Len(results) = Len(selected_models)
                            THEN JDict(results) ELSE @]
    /\ UNCHANGED <<mainVars, normVars, keyVars, aliasq, metricq, batch, race, chainq>>

\* CVExtractionPipeline.process_file(file, "llama3")
ProcessFile ==
    /\ doc.site = "pipeline"
    /\ doc.pc = "start"
    /\ \E o \in AcquisitionOutcomes, info \in ExtractedRecords :
         doc' =
           IF doc.file = "absent.pdf"
           THEN [doc EXCEPT !.pc = "done", !.returned = Exception("FileNotFoundError")]
           ELSE IF doc.file = "cv1.txt"
           THEN [doc EXCEPT !.pc = "done", !.returned = Exception("ValueError")]
           ELSE IF o.raised
           THEN [doc EXCEPT !.pc = "done", !.acquired = o,
                    !.returned = error_result(AcquisitionError, doc.file, "llama3")]
           ELSE IF o.text = None
           THEN [doc EXCEPT !.pc = "done", !.acquired = o, !.text = o.text,
                    !.returned = error_result(
                        "'NoneType' object has no attribute 'replace'",
                        doc.file, "llama3")]
           ELSE [doc EXCEPT !.pc = "done", !.acquired = o, !.text = o.text,
                    !.submitted = <<o.text>>,
                    !.returned = process_file(info, doc.file, "llama3")]
    /\ UNCHANGED <<mainVars, normVars, keyVars, aliasq, metricq, batch, race, chainq>>

SpecDocuments ==
    InitDocuments /\ [][WebExtractText \/ StartPrimary \/ PrimaryWrites \/ PrimaryExits
                          \/ JoinReturns \/ CheckPrimary \/ RunFallback \/ CheckText
                          \/ ExtractWithModel \/ ProcessFile]_vars

(***************************************************************************)
(* Two invocations that save to the same cache key at the same time, and   *)
(* readers of that key.  save_to_cache opens the file with mode 'w', which *)
(* empties it, and the text of json.dump reaches the file from its start   *)
(* when the file is closed; nothing orders the two writers.                *)
(***************************************************************************)
\* the records the two invocations save
SavedRecords ==
    {SixFieldRecord(s) : s \in {<<>>, <<JStr("Python")>>, <<JStr("SQL")>>,
                                <<JStr("Python"), JStr("SQL")>>}}

\* open(cache_file, 'w'): the file exists and is empty
OpenForWriting(files, key) == (key :> <<>>) @@ files
\* the buffered text written at position 0 of a file that another writer may
\* have filled since it was opened
WriteFromStart(files, key, text) ==
    (key :> text \o SubSeq(files[key], Len(text) + 1, Len(files[key]))) @@ files

InitCacheRaces ==
    /\ InitMain /\ api_key
    /\ InitNorm /\ InitKey /\ InitAlias /\ InitMetric /\ InitBatch /\ InitDocument
    /\ InitChain
    /\ \E r1 \in SavedRecords, r2 \in SavedRecords :
         /\ r1 # r2
         /\ race = [NoRace EXCEPT !.record = <<r1, r2>>, !.pc = <<"start", "start">>]

\* save_to_cache of one invocation: open(cache_file, 'w')
WriterOpens ==
    /\ \E w \in DOMAIN race.pc :
         /\ race.pc[w] = "start"
         /\ race' = [race EXCEPT !.pc[w] = "open",
                                 !.files = OpenForWriting(@, race.key)]
    /\ UNCHANGED <<mainVars, normVars, keyVars, aliasq, metricq, batch, doc,
                   chainq>>

\* save_to_cache of one invocation: json.dump and the end of the with block
WriterCloses ==
    /\ \E w \in DOMAIN race.pc :
         /\ race.pc[w] = "open"
         /\ race' = [race EXCEPT
               !.pc[w] = "closed",
               !.files = WriteFromStart(@, race.key, Dump(race.record[w])),
               !.closed = Append(@, w)]
    /\ UNCHANGED <<mainVars, normVars, keyVars, aliasq, metricq, batch, doc,
                   chainq>>

\* get_from_cache of a third invocation, at any moment
ReaderGets ==
    /\ race.pc # <<>>
    /\ race' = [race EXCEPT
          !.seen = @ \cup {get_from_cache(race.files, race.key, TRUE)}]
    /\ UNCHANGED <<mainVars, normVars, keyVars, aliasq, metricq, batch, doc,
                   chainq>>

SpecCacheRaces == InitCacheRaces /\ [][WriterOpens \/ WriterCloses \/ ReaderGets]_vars

(***************************************************************************)
(* extract_from_cv as a function of its arguments and of what it meets:    *)
(* the prompt it builds, the cache lookups and generation requests it      *)
(* makes, and the record it returns.                                       *)
(***************************************************************************)
\* self.extraction_prompt with the wording abridged: the instructions, the
\* braces of the JSON structure, the heading and the last line
extraction_prompt ==
    <<"Extract", "{", "{", "personal_info", "}", "}", "CV Text:",
      "{", "{", "cv_text", "}", "}">>

\* cv_text.replace("{", "{{").replace("}", "}}")
RECURSIVE EscapeBraces(_)
EscapeBraces(text) ==
    IF text = <<>> THEN <<>>
    ELSE (IF Head(text) \in {"{", "}"} THEN <<Head(text), Head(text)>>
          ELSE <<Head(text)>>) \o EscapeBraces(Tail(text))

Formatted(text) == [raised |-> "", text |-> text]
FormatRaised(what) == [raised |-> what, text |-> <<>>]
\* str.format(cv_text=value) from position i of template: a doubled brace
\* gives one brace, {cv_text} gives value, another field name raises
\* KeyError and a single brace ValueError
RECURSIVE format_from(_, _, _)
format_from(template, value, i) ==
    IF i > Len(template) THEN Formatted(<<>>)
    ELSE LET c == template[i]
             doubled == i < Len(template) /\ template[i + 1] = c
             Joined(piece, j) ==
                 LET rest == format_from(template, value, j)
                 IN IF rest.raised # "" THEN rest ELSE Formatted(piece \o rest.text)
         IN
         IF c \in {"{", "}"} /\ doubled THEN Joined(<<c>>, i + 2)
         ELSE IF c = "}" THEN FormatRaised("ValueError")
         ELSE IF c # "{" THEN Joined(<<c>>, i + 1)
         ELSE IF i + 2 > Len(template) \/ template[i + 2] # "}"
         THEN FormatRaised("ValueError")
         ELSE IF template[i + 1] # "cv_text" THEN FormatRaised("KeyError")
         ELSE Joined(value, i + 3)
format(template, value) == format_from(template, value, 1)

\* the positions where "{cv_text}" occurs in template
PlaceholderAt(template) ==
    {i \in 1..(Len(template) - 2) :
        /\ template[i] = "{"
        /\ template[i + 1] = "cv_text"
        /\ template[i + 2] = "}"}
\* parts = self.extraction_prompt.split("{cv_text}"); two parts are joined
\* around the text, otherwise the last-resort prompt is used
ManualPrompt(template, text) ==
    IF Cardinality(PlaceholderAt(template)) = 1
    THEN LET i == CHOOSE j \in PlaceholderAt(template) : TRUE
         IN SubSeq(template, 1, i - 1) \o text
              \o SubSeq(template, i + 3, Len(template))
    ELSE <<"Extract structured information from this CV as JSON:">> \o text
           \o <<"Return ONLY a valid JSON object">>

\* the try block at the head of extract_from_cv
BuildPrompt(text) ==
    LET f == format(extraction_prompt, EscapeBraces(text))
    IN IF f.raised = "KeyError" THEN Formatted(ManualPrompt(extraction_prompt, text))
       ELSE f

DEFAULT_MODEL == "llama3"
\* what the invocation meets: whether Ollama answers, what each local model
\* and each remote model gives, whether OpenRouter is available, whether
\* cache files can be read and written
Lookup(backend, key) == [op |-> "lookup", backend |-> backend, key |-> key]
Generate(backend, prompt) == [op |-> "generate", backend |-> backend, prompt |-> prompt]
Returned(log, rec, files) == [log |-> log, result |-> rec, files |-> files]
After(log, run) == [run EXCEPT !.log = log \o @]

\* the loop of call_openrouter_api from model i on: the requests sent and
\* what the loop ends with
RECURSIVE call_openrouter_api(_, _, _)
call_openrouter_api(env, prompt, i) ==
    LET out == env.remote[i]
        sent == <<Generate(openrouter_models[i], prompt)>>
    IN IF /\ out.kind \in {"request_exception", "status", "no_choices"}
          /\ i < Len(openrouter_models)
       THEN LET rest == call_openrouter_api(env, prompt, i + 1)
            IN [rest EXCEPT !.log = sent \o @]
       ELSE [log |-> sent, out |-> out]

\* the bottom of extract_from_cv: the all-methods-failed record
AllMethodsFailed(files) == Returned(<<>>, TerminalRecord, files)

\* what both loops do with a response: return the record of an error-free
\* extraction after caching it, or go on with rest
Respond(env, files, cache_key, out, rest) ==
    IF out.kind = "text" /\ out.text # <<>>
    THEN LET rec == extract_json_from_response(out.text) IN
         IF IsRaise(rec) THEN Returned(<<>>, rec, files)
         ELSE IF NoErrorTag(rec)
         THEN Returned(<<>>, rec,
                       save_to_cache(files, cache_key, rec,
                                     IF env.writable THEN Len(Dump(rec)) ELSE -1))
         ELSE rest
    ELSE rest

\* if self.check_openrouter_available(): ... and the final return
TryOpenRouter(env, text, prompt, files) ==
    IF ~env.available THEN AllMethodsFailed(files)
    ELSE LET cache_key == get_cache_key(text, "openrouter")
             cached_result == get_from_cache(files, cache_key, env.readable)
             looked == <<Lookup("openrouter", cache_key)>>
         IN IF Truthy(cached_result) THEN Returned(looked, cached_result, files)
            ELSE LET called == call_openrouter_api(env, prompt, 1) IN
                 IF called.out.kind = "bad_choice"
                 THEN Returned(looked \o called.log, Raised("KeyError"), files)
                 ELSE After(looked \o called.log,
                            Respond(env, files, cache_key, called.out,
                                    AllMethodsFailed(files)))

\* for model_name in self.models, from position i on
RECURSIVE TryOllama(_, _, _, _, _)
TryOllama(env, text, prompt, files, i) ==
    IF i > Len(models) THEN TryOpenRouter(env, text, prompt, files)
    ELSE LET model_name == models[i]
             cache_key == get_cache_key(text, model_name)
             cached_result == get_from_cache(files, cache_key, env.readable)
             looked == <<Lookup(model_name, cache_key)>>
         IN IF Truthy(cached_result) THEN Returned(looked, cached_result, files)
            ELSE After(looked \o <<Generate(model_name, prompt)>>,
                       Respond(env, files, cache_key, env.local[i],
                               TryOllama(env, text, prompt, files, i + 1)))

extract_from_cv_by_model(text, model, env) ==
    LET chosen == IF model = None THEN DEFAULT_MODEL ELSE model.v
        prompt == BuildPrompt(text)
        position == IF \E i \in DOMAIN models : models[i] = chosen \o ":latest"
                    THEN CHOOSE i \in DOMAIN models : models[i] = chosen \o ":latest"
                    ELSE 1
    IN IF prompt.raised # "" THEN Returned(<<>>, Raised(prompt.raised), env.files)
       ELSE IF env.up THEN TryOllama(env, text, prompt.text, env.files, position)
       ELSE TryOpenRouter(env, text, prompt.text, env.files)
\* extract_from_cv(cv_text, model): the default of model, the prompt, then
\* the local models in the order of self.models and the remote group
extract_from_cv(text, model, env) ==
    LET chosen == IF model = None THEN DEFAULT_MODEL ELSE model.v
        prompt == BuildPrompt(text)
    IN IF prompt.raised # "" THEN Returned(<<>>, Raised(prompt.raised), env.files)
       ELSE IF env.up THEN TryOllama(env, text, prompt.text, env.files, 1)
       ELSE TryOpenRouter(env, text, prompt.text, env.files)

\* the texts and the model arguments of the invocations
PromptTexts == {<<>>, <<"a">>, <<"b">>, <<"{", "a", "}">>}
ModelArguments == {None, JStr("phi"), JStr("mistral")}
\* what the three local models give, and what the three remote ones give
LocalBehaviours ==
    { <<Fails("request_exception"), Fails("no_response_field"), Fails("request_exception")>>,
      <<Text(OutputNested), Text(OutputAliases), Text(OutputProse)>>,
      <<Text(OutputProse), Text(OutputAliases), Text(OutputNested)>>,
      <<Text(OutputProse), Text(OutputProse), Text(OutputNested)>>,
      <<Text(OutputProse), Text(<<>>), Text(OutputProse)>> }
RemoteBehaviours ==
    { <<Fails("status"), Fails("no_choices"), Fails("request_exception")>>,
      <<Fails("status"), Text(OutputNested), Text(OutputAliases)>>,
      <<Fails("bad_choice"), Text(OutputNested), Text(OutputNested)>> }
\* an empty cache directory, or one holding an entry of phi for the text a
CacheDirectories ==
    { <<>>,
      get_cache_key(<<"a">>, "phi:latest") :> Dump(SixFieldRecord(<<JStr("SQL")>>)) }
Environments ==
    [up : BOOLEAN, local : LocalBehaviours, available : BOOLEAN,
     remote : RemoteBehaviours, files : CacheDirectories,
     readable : {TRUE}, writable : BOOLEAN]

InitChains ==
    /\ InitMain /\ api_key
    /\ InitNorm /\ InitKey /\ InitAlias /\ InitMetric /\ InitBatch /\ InitDocument
    /\ InitRace
    /\ \E env \in Environments :
       \E t1 \in PromptTexts, t2 \in PromptTexts :
       \E m1 \in ModelArguments, m2 \in ModelArguments :
         chainq = [env |-> env,
                   args |-> <<[cv_text |-> t1, model |-> m1],
                              [cv_text |-> t2, model |-> m2]>>,
                   runs |-> <<>>]

\* the next of the two invocations runs, on the cache directory and the
\* environment both start from
ExtractFromCv ==
    /\ Len(chainq.runs) < Len(chainq.args)
    /\ LET a == chainq.args[Len(chainq.runs) + 1]
       IN chainq' = [chainq EXCEPT !.runs =
                        Append(@, extract_from_cv(a.cv_text, a.model, chainq.env))]
    /\ UNCHANGED <<mainVars, normVars, keyVars, aliasq, metricq, batch, doc, race>>

SpecChains == InitChains /\ [][ExtractFromCv]_vars

(***************************************************************************)
(* Vocabulary of the properties.                                           *)
(***************************************************************************)
\* the fallback chain: the local models in listed order, then the remote group
Chain == <<"llama3:latest", "phi:latest", "mistral:latest", "openrouter">>
Rank(backend) ==
    IF \E i \in DOMAIN Chain : Chain[i] = backend
    THEN CHOOSE i \in DOMAIN Chain : Chain[i] = backend
    ELSE 0
\* the backend a live call at pc addresses
CalledBackend == IF pc = "local_call" THEN Chain[idx] ELSE "openrouter"
KeyOf(backend, text) == md5(<<backend, ":">> \o text)

IsRecord(x) == x.k = "dict"
ErrorTagged(x) == IsRecord(x) /\ HasKey(x, "error")
ErrorFree(x) == IsRecord(x) /\ ~HasKey(x, "error")
ListKeys == {"education", "experience", "skills", "languages"}
Canonical(x) ==
    /\ IsRecord(x)
    /\ HasKey(x, "personal_info") /\ GetKey(x, "personal_info").k = "dict"
    /\ \A f \in ListKeys : HasKey(x, f) /\ GetKey(x, f).k = "list"
FieldsEmpty(x) ==
    /\ Canonical(x)
    /\ \A i \in DOMAIN GetKey(x, "personal_info").v :
          GetKey(x, "personal_info").v[i][2] = JStr("")
    /\ \A f \in ListKeys : GetKey(x, f).v = <<>>

Running == pc \notin {"idle", "done", "raised"}
\* the records the cache files hold for text
HeldRecords(files, text) ==
    {Loads(files[KeyOf(Chain[i], text)]).val :
        i \in {j \in DOMAIN Chain : /\ KeyOf(Chain[j], text) \in DOMAIN files
                                     /\ Loads(files[KeyOf(Chain[j], text)]).ok}}

(***************************************************************************)
(* C1. Cache idempotence: when the first extract_from_cv(t) returned an    *)
(* error-free record and the next invocation has the same t, the two       *)
(* invocations send exactly one generation request in total, the second    *)
(* returns the record of the first and sends no request at all.            *)
(***************************************************************************)
C1_CacheIdempotence ==
    (/\ pc = "done"
     /\ calls = 2
     /\ prev.text = cv_text
     /\ ErrorFree(prev.result))
    => /\ result = prev.result
       /\ netlog = <<>>
       /\ prev.one_generation

(***************************************************************************)
(* C2. Fallback ordering: backends are called in the order of the chain,   *)
(* none is called after one gave an error-free record, and an invocation   *)
(* that returns without a cache hit returns the record of the first        *)
(* backend whose response normalized without an error tag - so it carries  *)
(* no error tag whenever some called backend gave parse-clean output.      *)
(***************************************************************************)
C2_FallbackOrdering ==
    [][/\ (last' # last /\ last' # NoAttempt)
          => (first_clean = NoAttempt /\ Rank(last'.backend) > Rank(last.backend))
       /\ (pc' = "done" /\ pc # "done" /\ hit' = "none")
          => IF first_clean' # NoAttempt
             THEN result' = first_clean'.rec /\ ErrorFree(result')
             ELSE ErrorTagged(result')]_vars

C2_Witness ==
    /\ pc = "done" /\ hit = "none"
    /\ idx = 3 /\ first_clean.backend = "openrouter"
    /\ result = first_clean.rec /\ ErrorFree(result)

(***************************************************************************)
(* C3. Total exhaustion: extract_from_cv never raises, and when no backend *)
(* gave an error-free record it returns a record with an error message     *)
(* whose personal_info values and four sequences are all empty.            *)
(***************************************************************************)
C3_ExhaustionTerminalRecord ==
    /\ pc # "raised"
    /\ (pc = "done" /\ hit = "none" /\ first_clean = NoAttempt)
          => (ErrorTagged(result) /\ FieldsEmpty(result))

(***************************************************************************)
(* C4. Canonical shape: every record _normalize_extraction_result gives    *)
(* and every record extract_from_cv returns (from the cache, from a local  *)
(* or remote backend, or on exhaustion) has the five keys, personal_info a *)
(* mapping and the other four sequences.                                   *)
(***************************************************************************)
C4_CanonicalShape ==
    /\ pc = "done" => Canonical(result)
    /\ ErrorFree(last.rec) => Canonical(last.rec)
    /\ ErrorFree(first_clean.rec) => Canonical(first_clean.rec)

C4_Witness ==
    /\ pc = "done" /\ hit = "openrouter"
    /\ result = _normalize_extraction_result(Loads(SubSeq(OutputAliases, 2,
                                                          Len(OutputAliases))).val)
    /\ GetKey(GetKey(result, "personal_info"), "name") = JStr("Bob")
    /\ GetKey(result, "skills") = JList(<<>>)

(***************************************************************************)
(* C5. Cache before network: an invocation that finds the cache holding a  *)
(* record for its text under some backend of the chain returns a held      *)
(* record and has sent no request of any kind.                             *)
(***************************************************************************)
C5_CachedReturnedWithoutNetwork ==
    [][(Running /\ pc' = "done" /\ HeldRecords(cache, cv_text) # {})
         => /\ hit' # "none"
            /\ result' \in HeldRecords(cache, cv_text)
            /\ netlog' = <<>>]_vars

(***************************************************************************)
(* C6. Error-tagged responses: when the response of a backend normalizes   *)
(* to an error-tagged record the next backend is tried: the next local     *)
(* model, the remote group after the last local model, the next remote     *)
(* model after a remote model.                                             *)
(***************************************************************************)
C6_ErrorTaggedContinues ==
    [][(pc \in {"local_call", "remote_call"} /\ last' # last /\ ErrorTagged(last'.rec))
         => CASE pc = "local_call" /\ idx < Len(models) ->
                    pc' = "local_cache" /\ idx' = idx + 1
              [] pc = "local_call" -> pc' = "check_openrouter"
              [] pc = "remote_call" /\ ridx < Len(openrouter_models) ->
                    pc' = "remote_call" /\ ridx' = ridx + 1
              [] OTHER -> pc' = "failed"]_vars

(***************************************************************************)
(* C7. Cache writes: a step of extract_from_cv changes the cache only when *)
(* a live call just gave an error-free record; it changes the one file of  *)
(* (backend called, text of the invocation), the file receives the text of *)
(* that record (all of it unless the write fails), and the record is       *)
(* returned.  The file never receives an error-tagged record.              *)
(***************************************************************************)
C7_CacheWrites ==
    [][cache' # cache =>
            LET k == KeyOf(CalledBackend, cv_text)
                dumped == Dump(result')
            IN  /\ pc \in {"local_call", "remote_call"} /\ pc' = "done"
                /\ last'.backend = CalledBackend /\ ErrorFree(last'.rec)
                /\ result' = last'.rec
                /\ DOMAIN cache' = DOMAIN cache \cup {k}
                /\ \A f \in DOMAIN cache : f # k => cache'[f] = cache[f]
                /\ Len(cache'[k]) <= Len(dumped)
                /\ cache'[k] = SubSeq(dumped, 1, Len(cache'[k]))
                /\ io'.write = "ok" => cache'[k] = dumped
                /\ ~ErrorTagged(Loads(cache'[k]).val)]_vars

C7_Witness ==
    /\ pc = "done" /\ hit = "none" /\ io.write = "ok"
    /\ last.backend = "openrouter" /\ ErrorFree(result)
    /\ KeyOf("openrouter", cv_text) \in DOMAIN cache
    /\ cache[KeyOf("openrouter", cv_text)] = Dump(result)
    /\ KeyOf("phi:latest", cv_text) \notin DOMAIN cache

(***************************************************************************)
(* C8. Cache I/O errors are not fatal: a lookup that finds a file it       *)
(* cannot read or parse goes on to the live call of the same backend, a    *)
(* failed write still returns the fresh record, and neither raises.        *)
(***************************************************************************)
C8_CacheIOErrorsNonFatal ==
    [][/\ (pc = "local_cache" /\ io'.read = "failed")
            => (pc' = "local_call" /\ idx' = idx)
       /\ (pc = "remote_cache" /\ io'.read = "failed") => pc' = "remote_call"
       /\ (pc \in {"local_cache", "remote_cache"}
              /\ KeyOf(IF pc = "local_cache" THEN Chain[idx] ELSE "openrouter", cv_text)
                    \in DOMAIN cache
              /\ pc' # "done")
            => io'.read = "failed"
       /\ (pc \in {"local_call", "remote_call"} /\ io'.write = "failed")
            => (pc' = "done" /\ result' = last'.rec /\ ErrorFree(result'))
       /\ pc \in {"local_cache", "remote_cache"} => pc' # "raised"]_vars

C8_Witness ==
    /\ pc = "done" /\ hit = "none"
    /\ io.read = "failed" /\ io.write = "failed"
    /\ result = last.rec /\ ErrorFree(result)

HasBracePair(r) == \E i, j \in DOMAIN r : i < j /\ r[i] = "{" /\ r[j] = "}"
BraceSpan(r) == SubSeq(r, FindFirst(r, {"{"}), FindLast(r, {"}"}))
HasInvalidFencedBlock(r) ==
    \E i, j \in DOMAIN r :
        /\ i < j /\ r[i] = FenceJson /\ r[j] = Fence
        /\ \A m \in (i + 1)..(j - 1) : r[m] \notin {Fence, FenceJson}
        /\ ~Loads(SubSeq(r, i + 1, j - 1)).ok
IsNonObjectJson(r) == Loads(r).ok /\ Loads(r).val.k # "dict"

C10_MalformedGivesErrorRecord ==
    extracted # NoResult =>
        /\ ~IsRaise(extracted)
        /\ (\/ response = <<>>
            \/ ~HasBracePair(response)
            \/ ~Loads(BraceSpan(response)).ok
            \/ HasInvalidFencedBlock(response)
            \/ IsNonObjectJson(response)) => ErrorTagged(extracted)

(***************************************************************************)
(* C10 as amended. extract_json_from_response never raises; it returns an  *)
(* error-tagged record for every raw response that is empty, has no brace  *)
(* pair (whatever fenced block or non-object JSON it holds), or has a      *)
(* brace span that is not valid JSON; a response whose span from the first *)
(* opening to the last closing brace is a valid object gives the           *)
(* normalized record of that object, also when the response is a JSON      *)
(* array or holds a fenced block that is not valid JSON.                   *)
(***************************************************************************)
C10_NoObjectSpanGivesErrorRecord ==
    extracted # NoResult =>
        /\ ~IsRaise(extracted)
        /\ (\/ response = <<>>
            \/ ~HasBracePair(response)
            \/ ~Loads(BraceSpan(response)).ok) => ErrorTagged(extracted)
        /\ (HasBracePair(response) /\ Loads(BraceSpan(response)).ok)
              => extracted = _normalize_extraction_result(Loads(BraceSpan(response)).val)

C10_Witness ==
    /\ extracted # NoResult
    /\ HasBracePair(response) /\ ~Loads(BraceSpan(response)).ok
    /\ \E i \in DOMAIN response : response[i] = FenceJson
    /\ ErrorTagged(extracted) /\ HasKey(extracted, "raw_response")

(***************************************************************************)
(* C11. Alias equivalence: for any value v, a model output that gives v    *)
(* under a top-level alias of name or email, in any letter case, and one   *)
(* that gives v as personal_info.name or personal_info.email normalize to  *)
(* records whose personal_info holds v in that field.                      *)
(***************************************************************************)
PersonalField(rec, field) == GetKey(GetKey(rec, "personal_info"), field)
C11_AliasEquivalence ==
    aliasq.done =>
        /\ Canonical(aliasq.top) /\ Canonical(aliasq.nested)
        /\ HasKey(GetKey(aliasq.top, "personal_info"), aliasq.field)
        /\ HasKey(GetKey(aliasq.nested, "personal_info"), aliasq.field)
        /\ PersonalField(aliasq.top, aliasq.field) = aliasq.value
        /\ PersonalField(aliasq.nested, aliasq.field) = aliasq.value

C11_Witness ==
    /\ aliasq.done
    /\ aliasq.alias = "FULL_NAME" /\ aliasq.value.k = "dict"
    /\ aliasq.context = "beside_personal_info"
    /\ PersonalField(aliasq.top, "name") = PersonalField(aliasq.nested, "name")
    /\ PersonalField(aliasq.top, "name") = aliasq.value

(***************************************************************************)
(* C12. Span selection: a response whose span from the first opening to    *)
(* the last closing brace is not valid JSON, but which holds a fenced      *)
(* block whose interior is a valid JSON object, gives a canonical record   *)
(* without an error tag.                                                   *)
(***************************************************************************)
HasValidFencedObject(r) ==
    \E i, j \in DOMAIN r :
        /\ i < j /\ r[i] = FenceJson /\ r[j] = Fence
        /\ \A m \in (i + 1)..(j - 1) : r[m] \notin {Fence, FenceJson}
        /\ Loads(SubSeq(r, i + 1, j - 1)).ok
        /\ Loads(SubSeq(r, i + 1, j - 1)).val.k = "dict"

C12_FencedFallback ==
    (/\ extracted # NoResult
     /\ HasBracePair(response)
     /\ ~Loads(BraceSpan(response)).ok
     /\ HasValidFencedObject(response))
    => (ErrorFree(extracted) /\ Canonical(extracted))

(***************************************************************************)
(* C13. Perfect match: for a non-empty record r, in canonical or in flat   *)
(* naming, EvaluationMetrics with extracted = r and ground_truth = r gives *)
(* accuracy = precision = recall = f1 = 1.                                 *)
(***************************************************************************)
C13_PerfectMatch ==
    (/\ metricq.scored
     /\ metricq.extracted = metricq.ground_truth
     /\ metricq.extracted # JDict(<<>>))
    => /\ metricq.scores.accuracy = One
       /\ metricq.scores.precision = One
       /\ metricq.scores.recall = One
       /\ metricq.scores.f1_score = One

C13_Witness ==
    /\ metricq.scored
    /\ metricq.extracted = FullCanonicalRecord
    /\ metricq.ground_truth = FullCanonicalRecord
    /\ Cardinality(extract_text_fields(metricq.extracted)) = 9
    /\ metricq.scores.accuracy = One /\ metricq.scores.f1_score = One

(***************************************************************************)
(* C14. Empty against non-empty: with an extraction whose fields are all   *)
(* empty and a ground truth whose skills list is non-empty, recall = 0,    *)
(* the field accuracy of skills = 0 and precision = 1.                     *)
(***************************************************************************)
AllFieldsEmpty(e) == \A i \in DOMAIN e.v : ~Truthy(e.v[i][2])
HasSkills(g) ==
    /\ HasKey(g, "skills") /\ GetKey(g, "skills").k = "list"
    /\ GetKey(g, "skills").v # <<>>
SkillsTokens(g) == extract_text_fields(JDict(<< <<"skills", GetKey(g, "skills")>> >>))

C14_EmptyExtractionPrecisionOne ==
    (/\ metricq.scored
     /\ AllFieldsEmpty(metricq.extracted)
     /\ HasSkills(metricq.ground_truth))
    => /\ metricq.scores.recall = Zero
       /\ metricq.scores.field_accuracy["skills"] = Zero
       /\ metricq.scores.precision = One

(***************************************************************************)
(* C14 as amended. With an extraction whose fields are all empty and a     *)
(* ground truth whose skills list holds at least one non-blank entry,      *)
(* recall = 0, the field accuracy of skills = 0 and precision = 0: with no *)
(* extracted token, precision is 1 only when the ground truth has no token *)
(* either.                                                                 *)
(***************************************************************************)
C14_EmptyExtractionScoresZero ==
    (/\ metricq.scored
     /\ AllFieldsEmpty(metricq.extracted)
     /\ HasSkills(metricq.ground_truth)
     /\ SkillsTokens(metricq.ground_truth) # {})
    => /\ metricq.scores.recall = Zero
       /\ metricq.scores.field_accuracy["skills"] = Zero
       /\ metricq.scores.precision = Zero

C14_Witness ==
    /\ metricq.scored
    /\ metricq.extracted = EmptyCanonicalRecord
    /\ HasSkills(metricq.ground_truth)
    /\ GetKey(metricq.ground_truth, "skills") = JList(<<JStr("Python"), JStr("SQL")>>)
    /\ metricq.scores.recall = Zero
    /\ metricq.scores.field_accuracy["skills"] = Zero
    /\ metricq.scores.precision = Zero

(***************************************************************************)
(* C15. Precision and recall: with E and G the token sets of the whole     *)
(* extracted record and of the whole ground truth, precision is            *)
(* |E \cap G| / |E| when E is non-empty, 1 when E and G are both empty and *)
(* 0 when only E is empty; recall is |E \cap G| / |G| when G is non-empty  *)
(* and 1 when G is empty, whatever E is.                                   *)
(***************************************************************************)
C15_PrecisionRecallEdges ==
    metricq.scored =>
        LET E == extract_text_fields(metricq.extracted)
            G == extract_text_fields(metricq.ground_truth)
        IN /\ E # {} => metricq.scores.precision
                           = Frac(Cardinality(E \cap G), Cardinality(E))
           /\ (E = {} /\ G = {}) => metricq.scores.precision = One
           /\ (E = {} /\ G # {}) => metricq.scores.precision = Zero
           /\ G # {} => metricq.scores.recall
                           = Frac(Cardinality(E \cap G), Cardinality(G))
           /\ G = {} => metricq.scores.recall = One

C15_Witness ==
    /\ metricq.scored
    /\ extract_text_fields(metricq.extracted) # {}
    /\ extract_text_fields(metricq.ground_truth) = {}
    /\ metricq.ground_truth = BlankSkillsRecord
    /\ metricq.scores.recall = One
    /\ metricq.scores.precision = Zero

(***************************************************************************)
(* C16. Field accuracy: for a weighted field f the score is 1 when f is    *)
(* absent from both records and 0 when it is absent from exactly one;      *)
(* otherwise, when the ground-truth field has tokens, it is the fraction   *)
(* of them that occur among the extracted tokens of f (tokens are lower-   *)
(* cased and whitespace-collapsed), and an extraction with more tokens of  *)
(* f never scores lower; when the ground-truth field has no token it is 1  *)
(* or 0 according to whether the extracted field has none.                 *)
(***************************************************************************)
FieldTokens(r, f) == extract_text_fields(JDict(<< <<f, GetKey(r, f)>> >>))

C16_FieldAccuracy ==
    metricq.scored =>
        \A f \in WeightedFields :
            LET e == metricq.extracted
                g == metricq.ground_truth
                a == metricq.scores.field_accuracy[f]
            IN /\ (~HasKey(e, f) /\ ~HasKey(g, f)) => a = One
               /\ (HasKey(e, f) # HasKey(g, f)) => a = Zero
               /\ (HasKey(e, f) /\ HasKey(g, f) /\ FieldTokens(g, f) # {}) =>
                     /\ a = Frac(Cardinality({t \in FieldTokens(g, f) :
                                                 t \in FieldTokens(e, f)}),
                                 Cardinality(FieldTokens(g, f)))
                     /\ \A e2 \in MetricRecords :
                           (HasKey(e2, f) /\ FieldTokens(e, f) \subseteq FieldTokens(e2, f))
                              => FLe(a, calculate_field_accuracy(e2, g, f))
               /\ (HasKey(e, f) /\ HasKey(g, f) /\ FieldTokens(g, f) = {}) =>
                     a = IF FieldTokens(e, f) = {} THEN One ELSE Zero

C16_Witness ==
    /\ metricq.scored
    /\ metricq.extracted = JDict(<< <<"skills", JList(<<JStr("python"), JStr("Java")>>)>> >>)
    /\ metricq.ground_truth = JDict(<< <<"skills", JList(<<JStr("Python"), JStr("SQL")>>)>> >>)
    /\ FieldTokens(metricq.extracted, "skills") = {"skills[0]:python", "skills[1]:java"}
    /\ metricq.scores.field_accuracy["skills"] = Frac(1, 2)

(***************************************************************************)
(* C17. Weight sum: for every pair of records each field accuracy and the  *)
(* overall weighted accuracy lie between 0 and 1, in EvaluationMetrics     *)
(* (fixed weights that sum to 1) and in OptimizedCVEvaluator (weights      *)
(* renormalized over the fields of the ground truth) whenever it gives a   *)
(* score.                                                                  *)
(***************************************************************************)
InUnitInterval(x) == FLe(Zero, x) /\ FLe(x, One)

C17_ScoresWithinUnitInterval ==
    /\ metricq.scored =>
          /\ \A f \in WeightedFields : InUnitInterval(metricq.scores.field_accuracy[f])
          /\ InUnitInterval(metricq.scores.accuracy)
    /\ metricq.rated =>
          /\ \A f \in DOMAIN metricq.field_ratings :
                ~metricq.field_ratings[f].raised
                   => InUnitInterval(metricq.field_ratings[f].value)
          /\ ~metricq.rating.raised => InUnitInterval(metricq.rating.value)

C17_Witness ==
    /\ metricq.scored /\ metricq.rated
    /\ metricq.extracted = SixFieldRecord(<<JStr("python"), JStr("Java")>>)
    /\ metricq.ground_truth = FlatRecord(<<JStr("python")>>)
    /\ DOMAIN metricq.field_ratings = {"Name", "Skills"}
    /\ metricq.field_ratings["Skills"] = Scored(Frac(1, 2))
    /\ metricq.rating = Scored(Frac(11, 16))
    /\ metricq.scores.accuracy = Frac(1, 20)

(***************************************************************************)
(* C18. Both ground-truth namings: scoring an extraction in canonical      *)
(* naming against a ground truth written in flat naming gives the same     *)
(* accuracy, precision and recall as scoring it against the same ground    *)
(* truth written in canonical naming.                                      *)
(***************************************************************************)
C18_FlatGroundTruthScoresTheSame ==
    (/\ metricq.scored
     /\ Canonical(metricq.extracted)
     /\ FlatWritable(metricq.ground_truth))
    => /\ metricq.other_scores.accuracy = metricq.scores.accuracy
       /\ metricq.other_scores.precision = metricq.scores.precision
       /\ metricq.other_scores.recall = metricq.scores.recall


\* the items of a backend that the finished run kept, in data-set order
LoggedItems(model) ==
    IF batch.evaluator = "CVEvaluator" THEN batch.results[model]
    ELSE [n \in DOMAIN batch.all_results |-> batch.all_results[n].results[model]]
\* whether a kept item is one the evaluator labels successful
ItemSucceeded(item) ==
    IF batch.evaluator = "CVEvaluator" THEN item.errors = <<>> ELSE item.error = None
\* the value of a kept item in a column
ItemValue(item, column) ==
    IF column = "accuracy" /\ batch.evaluator = "OptimizedCVEvaluator"
    THEN item.accuracy.value ELSE item[column]
RECURSIVE ColumnTotal(_, _, _)
ColumnTotal(items, column, n) ==
    IF n = 0 THEN Zero
    ELSE FAdd(ColumnTotal(items, column, n - 1), ItemValue(items[n], column))
\* the arithmetic mean of a column over the successful items of a backend
MeanOverSuccessful(model, column) ==
    LET items == SelectSeq(LoggedItems(model), ItemSucceeded) IN
    IF items = <<>> THEN Zero
    ELSE [n |-> ColumnTotal(items, column, Len(items)).n,
          d |-> ColumnTotal(items, column, Len(items)).d * Len(items)]
SameFraction(a, b) == a.n * b.d = b.n * a.d

\* C19: in the summary of a finished run every backend has total = successful
\* + failed, the counts are those of its kept items, and every reported mean
\* is the arithmetic mean over its successful items only, 0 when it has none
C19_BatchAggregation ==
    batch.phase = "reported" =>
      \A model \in DOMAIN batch.report :
        LET s == batch.report[model]
            items == LoggedItems(model)
            successful == Len(SelectSeq(items, ItemSucceeded))
        IN IF batch.evaluator = "CVEvaluator"
           THEN /\ s.total_cvs = s.successful_extractions + s.failed_extractions
                /\ s.total_cvs = Len(items)
                /\ s.successful_extractions = successful
                /\ SameFraction(s.avg_accuracy, MeanOverSuccessful(model, "accuracy"))
                /\ SameFraction(s.avg_precision, MeanOverSuccessful(model, "precision"))
                /\ SameFraction(s.avg_recall, MeanOverSuccessful(model, "recall"))
                /\ SameFraction(s.avg_f1_score, MeanOverSuccessful(model, "f1_score"))
                /\ SameFraction(s.avg_extraction_time,
                                MeanOverSuccessful(model, "extraction_time"))
           ELSE /\ s.total_cvs = s.successful + s.failed
                /\ s.total_cvs = Len(items)
                /\ s.successful = successful
                /\ SameFraction(s.avg_accuracy, MeanOverSuccessful(model, "accuracy"))
                /\ SameFraction(s.avg_time, MeanOverSuccessful(model, "extraction_time"))
\* a finished run in which a backend has a failed item and a successful item,
\* and a mean accuracy above 0
C19_Witness ==
    /\ batch.phase = "reported"
    /\ \E model \in DOMAIN batch.report :
         /\ \E n \in DOMAIN LoggedItems(model) : ~ItemSucceeded(LoggedItems(model)[n])
         /\ \E n \in DOMAIN LoggedItems(model) : ItemSucceeded(LoggedItems(model)[n])
         /\ batch.report[model].avg_accuracy # Zero


\* the files of the data set whose ground-truth file is missing
MissingItems == {n \in DOMAIN batch.cv_files : batch.cv_files[n] = NoGroundTruth}
\* the counts of a backend in the summary
TotalCount(model) == batch.report[model].total_cvs
FailedCount(model) ==
    IF batch.evaluator = "CVEvaluator" THEN batch.report[model].failed_extractions
    ELSE batch.report[model].failed

\* C20: after a run over a data set with missing ground-truth files, every
\* backend has a summary in which the total counts every file of the data
\* set (the run went on after the missing ones) and the failed count includes
\* every file without ground truth, with either evaluator
C20_MissingGroundTruthCountedAsFailed ==
    (batch.phase = "reported" /\ MissingItems # {}) =>
      \A model \in EvaluatedModels :
        /\ model \in DOMAIN batch.report
        /\ TotalCount(model) = Len(batch.cv_files)
        /\ FailedCount(model) >= Cardinality(MissingItems)


\* the backends a finished run reports as best and as fastest, "" for none
ReportedBest ==
    IF batch.evaluator = "CVEvaluator"
    THEN (IF batch.comparison = <<>> THEN "" ELSE batch.comparison.best_accuracy.model)
    ELSE batch.comparison.best_model
ReportedFastest ==
    IF batch.evaluator = "CVEvaluator"
    THEN (IF batch.comparison = <<>> THEN "" ELSE batch.comparison.fastest.model)
    ELSE batch.comparison.fastest_model
SuccessfulCount(model) ==
    IF batch.evaluator = "CVEvaluator" THEN batch.report[model].successful_extractions
    ELSE batch.report[model].successful
MeanDuration(model) ==
    IF batch.evaluator = "CVEvaluator" THEN batch.report[model].avg_extraction_time
    ELSE batch.report[model].avg_time

\* C21: in a finished run the backend reported as best has the largest mean
\* accuracy of the summary, and the backend reported as fastest has successful
\* items and the smallest mean duration among the backends that have some
C21_DerivedComparison ==
    batch.phase = "reported" =>
      /\ ReportedBest # "" =>
           \A model \in DOMAIN batch.report :
              FLe(batch.report[model].avg_accuracy, batch.report[ReportedBest].avg_accuracy)
      /\ ReportedFastest # "" =>
           /\ SuccessfulCount(ReportedFastest) > 0
           /\ \A model \in DOMAIN batch.report :
                SuccessfulCount(model) > 0 =>
                   FLe(MeanDuration(ReportedFastest), MeanDuration(model))


\* the call of process_pdf of cv_extractor/web/app.py has chosen its text
TextChosen == doc.site = "cv_extractor" /\ doc.pc \in {"have_text", "extract", "done"}

\* C22: once the racing process_pdf has its text, the fallback has run exactly
\* when the primary thread was alive after the wait or had recorded an error;
\* if it ran, the text and every text submitted to extraction are what the
\* fallback returned, whatever the primary thread has written since; if it
\* did not run, they are the text the primary thread wrote
C22_DeadlineRace ==
    TextChosen =>
      /\ doc.fallback_ran <=> (doc.alive_seen \/ doc.error_seen)
      /\ doc.text = IF doc.fallback_ran THEN extract_text_fallback(doc.acquired)
                    ELSE doc.results_container.text
      /\ \A n \in DOMAIN doc.submitted : doc.submitted[n] = doc.text
\* the fallback ran for a primary thread that was still alive, the thread wrote
\* another text afterwards, and the fallback's text went to extraction
C22_Witness ==
    /\ TextChosen
    /\ doc.pc = "done"
    /\ doc.fallback_ran
    /\ doc.alive_seen
    /\ doc.written_after_choice
    /\ doc.results_container.text # None
    /\ doc.results_container.text # doc.text
    /\ doc.submitted # <<>>


\* C23: process_file, called on an existing file with a .pdf suffix whose
\* text acquisition fails, ends with an exception
C23_CorruptPdfRaises ==
    (/\ doc.site = "pipeline"
     /\ doc.pc = "done"
     /\ doc.file = "cv1.pdf"
     /\ doc.acquired.raised)
    => IsRaise(doc.returned)


\* what the acquisition path that process_pdf or process_file relied on gave
AcquisitionFailed ==
    IF doc.site = "cv_extractor" /\ ~doc.fallback_ran
    THEN TooShort(doc.results_container.text)
    ELSE doc.acquired.raised \/ TooShort(doc.acquired.text)

\* C24: when a call on an existing PDF ends and text acquisition raised or
\* gave no text or a text below the minimum length, the call returns an
\* error record and no text was submitted to extraction, at all three sites
C24_NoExtractionWithoutText ==
    (doc.pc = "done" /\ doc.file = "cv1.pdf" /\ AcquisitionFailed)
    => /\ doc.submitted = <<>>
       /\ doc.returned.k = "dict"
       /\ HasKey(doc.returned, "error")


\* both writers of the cache key have closed the file
BothWritten == Len(race.closed) = 2

\* C25: once both unordered writers have finished, the stored entry is the
\* text of the record of the writer that finished last, and every reader, at
\* any moment, got None or one of the two records whole
C25_LastWriterWins ==
    /\ BothWritten =>
         race.files[race.key] = Dump(race.record[race.closed[2]])
    /\ \A r \in race.seen :
         r = None \/ \E w \in DOMAIN race.record : r = race.record[w]


\* the two invocations of chainq have run
BothRan == Len(chainq.runs) = 2
\* the prompts an invocation submitted to backends
SubmittedPrompts(run) ==
    {run.log[i].prompt : i \in {j \in DOMAIN run.log : run.log[j].op = "generate"}}
\* the template as format renders it up to the placeholder of its last line
RenderedHead == <<"Extract", "{", "personal_info", "}", "CV Text:">>

\* C26: the prompt extract_from_cv submits to a backend holds the input CV
\* text in the place of the cv_text placeholder of the template, so the
\* prompts submitted for two different input texts differ.
C26_PromptCarriesText ==
    BothRan =>
       /\ \A n \in 1..2 : \A p \in SubmittedPrompts(chainq.runs[n]) :
             p = RenderedHead \o chainq.args[n].cv_text
       /\ chainq.args[1].cv_text # chainq.args[2].cv_text =>
             SubmittedPrompts(chainq.runs[1]) \cap SubmittedPrompts(chainq.runs[2]) = {}

\* the backends an invocation addressed, in order, lookups and requests alike
Addressed(run) == [i \in DOMAIN run.log |-> run.log[i].backend]
LocalFirst(run) ==
    \A i \in DOMAIN run.log :
       /\ i <= 2 * Len(models) => run.log[i].backend = models[(i + 1) \div 2]
       /\ i > 2 * Len(models) =>
             run.log[i].backend \in {"openrouter"} \cup
                 {openrouter_models[j] : j \in DOMAIN openrouter_models}

KeptItem(n) == batch.results[batch.returned[n].model][batch.returned[n].item]
\* the calls of evaluate_single_cv in which process_file returned a record
\* carrying an error key
ErrorTaggedReturns ==
    {n \in DOMAIN batch.returned :
        /\ batch.returned[n].record # NoResult
        /\ HasKey(batch.returned[n].record, "error")}
\* how many calls for model got a record back from process_file
ReturnedCount(model) ==
    Cardinality({n \in DOMAIN batch.returned :
                    /\ batch.returned[n].model = model
                    /\ batch.returned[n].record # NoResult})

\* C28: CVEvaluator keeps an item with empty errors, and counts it among the
\* successful extractions behind the means, whenever the ground truth loaded
\* and process_file returned, error-tagged records included; an item is
\* failed only when evaluate_single_cv caught an exception.
C28_ErrorTaggedCountedSuccessful ==
    batch.evaluator = "CVEvaluator" =>
       /\ \A n \in DOMAIN batch.returned :
             (KeptItem(n).errors = <<>>) <=> (batch.returned[n].record # NoResult)
       /\ batch.phase = "reported" =>
             \A model \in DOMAIN batch.report :
                batch.report[model].successful_extractions = ReturnedCount(model)
\* a reported run of CVEvaluator in which process_file returned the
\* all-methods-failed record once and the record of a failed text
\* acquisition once, both kept with empty errors
C28_Witness ==
    /\ batch.evaluator = "CVEvaluator"
    /\ batch.phase = "reported"
    /\ \E n \in ErrorTaggedReturns, k \in ErrorTaggedReturns :
         /\ GetKey(batch.returned[n].record, "error") = JStr("All extraction methods failed")
         /\ GetKey(batch.returned[k].record, "error") = JStr(AcquisitionError)
         /\ KeptItem(n).errors = <<>>
         /\ KeptItem(k).errors = <<>>
         /\ batch.report[batch.returned[n].model].successful_extractions >= 1


\* the ground truth loaded for the n-th call of evaluate_single_cv
LoadedTruth(n) == batch.cv_files[batch.returned[n].item]
\* the record and the ground truth agree on each of the five canonical fields
SameCanonicalFields(record, truth) ==
    \A field \in WeightedFields :
       /\ HasKey(record, field) <=> HasKey(truth, field)
       /\ HasKey(truth, field) => GetKey(record, field) = GetKey(truth, field)
\* the calls in which process_file returned the canonical fields of a
\* non-empty ground truth that has no metadata
ExactReturns ==
    {n \in DOMAIN batch.returned :
        /\ batch.returned[n].record # NoResult
        /\ ~HasKey(LoadedTruth(n), "metadata")
        /\ extract_text_fields(LoadedTruth(n)) # {}
        /\ SameCanonicalFields(batch.returned[n].record, LoadedTruth(n))}

\* C29: CVEvaluator scores the record process_file returns, with its added
\* metadata mapping, whose three values join the extracted tokens: an
\* extraction whose five canonical fields equal a non-empty ground truth
\* without metadata gets recall 1 and accuracy 1 and a precision below 1.
C29_MetadataLowersPrecision ==
    batch.evaluator = "CVEvaluator" =>
       \A n \in ExactReturns :
          LET record == batch.returned[n].record
              tokens == extract_text_fields(record)
              truth_tokens == extract_text_fields(LoadedTruth(n))
          IN /\ HasKey(record, "metadata")
             /\ Cardinality(extract_text_fields(
                    JDict(<< <<"metadata", GetKey(record, "metadata")>> >>))) = 3
             /\ Cardinality(tokens \ truth_tokens) = 3
             /\ KeptItem(n).recall = One
             /\ KeptItem(n).accuracy = One
             /\ FLt(KeptItem(n).precision, One)
             /\ KeptItem(n).precision =
                   Frac(Cardinality(truth_tokens), Cardinality(truth_tokens) + 3)
\* phi returned exactly the canonical fields of the ground truth of the
\* second file, and the kept item has precision 3/4
C29_Witness ==
    /\ batch.evaluator = "CVEvaluator"
    /\ \E n \in ExactReturns :
         /\ batch.returned[n].model = "phi"
         /\ batch.returned[n].item = 2
         /\ LoadedTruth(n) = FullCanonicalRecord
         /\ KeptItem(n).precision = Frac(3, 4)
         /\ KeptItem(n).errors = <<>>


\* a record that has the skills sequence and nothing else
SkillsOnly(record) ==
    /\ record.k = "dict"
    /\ Len(record.v) = 1
    /\ record.v[1][1] = "skills"
    /\ record.v[1][2].k = "list"
SkillsOf(record) == record.v[1][2].v
\* the indices of a sequence whose element gives a token: those whose
\* normalized value is not empty
TokenIndices(xs) == {i \in DOMAIN xs : normalize_text(PyStr(xs[i])) # ""}
\* the indices at which two sequences hold the same normalized value
AgreeingIndices(xs, ys) ==
    {i \in TokenIndices(xs) \cap TokenIndices(ys) :
        normalize_text(PyStr(xs[i])) = normalize_text(PyStr(ys[i]))}
Reversed(xs) == [i \in DOMAIN xs |-> xs[Len(xs) + 1 - i]]
\* n / d, and what the score is when d = 0
Ratio(n, d, empty) == IF d = 0 THEN empty ELSE Frac(n, d)

\* C30: token matching is positional: an element of an extracted sequence
\* matches a ground-truth element only at the same index with the same
\* normalized value, so the scores count the agreeing indices, and an
\* extracted sequence that is the ground truth in another order can score
\* 0.0 where the ground truth's own order scores 1.0.
C30_PositionalMatching ==
    (metricq.scored /\ SkillsOnly(metricq.extracted) /\ SkillsOnly(metricq.ground_truth)) =>
       LET xs == SkillsOf(metricq.extracted)
           ys == SkillsOf(metricq.ground_truth)
           agree == Cardinality(AgreeingIndices(xs, ys))
           given == Cardinality(TokenIndices(xs))
           wanted == Cardinality(TokenIndices(ys))
       IN /\ extract_text_fields(metricq.extracted)
               \cap extract_text_fields(metricq.ground_truth)
               = {"skills[" \o ToString(i - 1) \o "]:" \o normalize_text(PyStr(xs[i])) :
                     i \in AgreeingIndices(xs, ys)}
          /\ metricq.scores.precision =
                Ratio(agree, given, IF wanted = 0 THEN One ELSE Zero)
          /\ metricq.scores.recall = Ratio(agree, wanted, One)
          /\ metricq.scores.field_accuracy["skills"] =
                Ratio(agree, wanted, IF given = 0 THEN One ELSE Zero)
          /\ (xs = Reversed(ys) /\ agree = 0 /\ wanted > 0) =>
                /\ metricq.scores.precision = Zero
                /\ metricq.scores.recall = Zero
                /\ metricq.scores.field_accuracy["skills"] = Zero
                /\ calculate_precision(metricq.ground_truth, metricq.ground_truth) = One
                /\ calculate_recall(metricq.ground_truth, metricq.ground_truth) = One
                /\ calculate_field_accuracy(metricq.ground_truth, metricq.ground_truth,
                                            "skills") = One
\* the ground truth lists Python then SQL, the extraction SQL then Python,
\* and precision, recall and the accuracy of skills are 0
C30_Witness ==
    /\ metricq.scored
    /\ metricq.ground_truth = JDict(<< <<"skills", JList(<<JStr("Python"), JStr("SQL")>>)>> >>)
    /\ metricq.extracted = JDict(<< <<"skills", JList(<<JStr("SQL"), JStr("Python")>>)>> >>)
    /\ metricq.scores.precision = Zero
    /\ metricq.scores.recall = Zero
    /\ metricq.scores.field_accuracy["skills"] = Zero

====
